---- MODULE Spec2Model ----
(***************************************************************************)
(* Ordered-entity persistence core of the portfolio API:                   *)
(*   - the ordered collection repository (SkillRepository /                *)
(*     ProjectRepository, textually identical) and its reorder algorithm,  *)
(*   - the add / create use cases with their uniqueness lookups,           *)
(*   - the contact message lifecycle (entity and repository).              *)
(* A collection is a function from the stored _id values to documents.     *)
(***************************************************************************)
EXTENDS Integers, Sequences, FiniteSets, TLC

\* ------------------------------------------------------------------ bounds
MaxDocs == 4
MaxIndex == 3
MaxAdds == 2
MaxAddIndex == 1
MaxClock == 3
MaxMessages == 1

Ids == 1..MaxDocs
Profiles == {"p1", "p2"}
IndexInputs == (0 - 1)..(MaxIndex + 1)
StoredIndexes == (0 - 1)..MaxIndex
ListLimit == 100
AllWorkers == {1, 2}

VARIABLES
    collection,   \* SkillRepository._collection: _id -> document
    issued,       \* number of ids handed out by uuid.uuid4()
    last,         \* the last use case execution / repository call and its outcome
    educations,   \* the education collection: _id -> document
    experiences,  \* the work experience collection: _id -> document
    profiles,     \* the profile collection: _id -> document
    message,      \* a ContactMessage object in memory
    contact_messages, \* ContactMessageRepository._collection: _id -> document
    now,          \* the clock read by datetime.utcnow()
    returned,     \* the last ContactMessageRepository call and its return value
    pc,           \* per concurrent call: position in reorder / AddSkill
    call,         \* per concurrent call: its arguments
    old_index,    \* per reorder call: the local old_index
    pre,          \* per repository call: the collection when the call started
    writes,       \* per reorder call: number of store writes it has issued
    late,         \* per reorder call: the other call had shifted before this one moved
    entity,       \* a domain entity object in memory
    persisted,    \* a persisted document handed to a mapper
    edit          \* the EditSkillUseCase execution: its position and request

workerVars == <<pc, call, old_index, pre, writes, late>>
useCaseVars == <<educations, experiences, profiles>>
messageVars == <<message, contact_messages, now, returned>>
entityVars == <<entity, persisted, edit>>
vars == <<collection, issued, last, workerVars, useCaseVars, messageVars,
          entityVars>>

\* --------------------------------------------------------------- documents
Document(p, n, i) == [profile_id |-> p, name |-> n, order_index |-> i]

\* a str value: its text, len() of it, and whether strip() leaves nothing
Txt(s, n, b) == [s |-> s, len |-> n, blank |-> b]

\* None
None == [none |-> TRUE]

NameOf(id) == Txt(ToString(id), 1, FALSE)

\* Project._validate_order_index, re-run by the mapper's to_domain
ValidOrderIndex(i) == i >= 0

\* ProjectMapper.to_domain: builds the entity, whose __post_init__ validates
ToDomainOk(d) == ValidOrderIndex(d.order_index)

\* find({"profile_id": profile_id})
OfProfile(c, p) == {id \in DOMAIN c : c[id].profile_id = p}

IndexSet(c, p) == {c[id].order_index : id \in OfProfile(c, p)}

\* no two documents of profile p share an order_index
UniqueIndex(c, p) ==
    \A a, b \in OfProfile(c, p) : a # b => c[a].order_index # c[b].order_index

\* ------------------------------------------------------ get_all_ordered
Min(a, b) == IF a <= b THEN a ELSE b

RECURSIVE Orders(_)
\* every order of the ids of S (the store orders equal keys as it likes)
Orders(S) ==
    IF S = {} THEN {<<>>}
    ELSE UNION { { <<x>> \o t : t \in Orders(S \ {x}) } : x \in S }

RECURSIVE SortedSeqs(_, _)
\* cursor.sort("order_index", 1): every order of the ids of S by ascending
\* order_index; S is split at a median key, so a long list is sorted in
\* few nested steps
SortedSeqs(c, S) ==
    IF S = {} THEN {<<>>}
    ELSE LET m == CHOOSE k \in { c[y].order_index : y \in S } :
                    /\ 2 * Cardinality({ y \in S : c[y].order_index < k })
                          <= Cardinality(S)
                    /\ 2 * Cardinality({ y \in S : c[y].order_index > k })
                          <= Cardinality(S)
         IN { lo \o eq \o hi :
                lo \in SortedSeqs(c, { y \in S : c[y].order_index < m }),
                eq \in Orders({ y \in S : c[y].order_index = m }),
                hi \in SortedSeqs(c, { y \in S : c[y].order_index > m }) }

Reverse(s) == [i \in 1..Len(s) |-> s[Len(s) + 1 - i]]

\* the possible results of get_all_ordered(profile_id, ascending), as ids
GetAllOrdered(c, p, ascending) ==
    { SubSeq(r, 1, Min(Len(r), ListLimit)) :
        r \in { IF ascending THEN s ELSE Reverse(s) :
                  s \in SortedSeqs(c, OfProfile(c, p)) } }

\* ------------------------------------------------------------- reorder
\* the early return "if old_index == new_order_index"
IsNoOp_NeverReturn(old, new) == FALSE

IsNoOp(old, new) == old = new

\* update_many filter + $inc, forward filter with $lt instead of $lte
ShiftedIndex_OffByOne(d, p, old, new) ==
    IF d.profile_id # p THEN d.order_index
    ELSE IF old < new
         THEN IF d.order_index > old /\ d.order_index < new
              THEN d.order_index - 1 ELSE d.order_index
         ELSE IF d.order_index >= new /\ d.order_index < old
              THEN d.order_index + 1 ELSE d.order_index

\* the order_index of document d after the update_many of reorder
ShiftedIndex(d, p, old, new) ==
    IF d.profile_id # p THEN d.order_index
    ELSE IF old < new
         THEN IF d.order_index > old /\ d.order_index <= new
              THEN d.order_index - 1 ELSE d.order_index
         ELSE IF d.order_index >= new /\ d.order_index < old
              THEN d.order_index + 1 ELSE d.order_index

\* update_one $set that stores the old index again
SetOrderIndex_Stale(d, old, new) == [d EXCEPT !.order_index = old]

\* update_one({"_id": entity_id}, {"$set": {"order_index": new_order_index}})
SetOrderIndex(d, old, new) == [d EXCEPT !.order_index = new]

Other(w) == CHOOSE v \in AllWorkers : v # w

NoCall == [profile_id |-> "", entity_id |-> 0, new_order_index |-> 0]

\* reorder, up to its first write: get_by_id, the two early returns
ReorderRead(w, p, e, new) ==
    /\ pc[w] = "idle"
    /\ call' = [call EXCEPT ![w] =
                 [profile_id |-> p, entity_id |-> e, new_order_index |-> new]]
    /\ pre' = [pre EXCEPT ![w] = collection]
    /\ writes' = [writes EXCEPT ![w] = 0]
    /\ late' = [late EXCEPT ![w] = FALSE]
    /\ IF e \notin DOMAIN collection
       THEN /\ pc' = [pc EXCEPT ![w] = "done"]
            /\ old_index' = [old_index EXCEPT ![w] = 0]
       ELSE IF ~ToDomainOk(collection[e])
       THEN /\ pc' = [pc EXCEPT ![w] = "raised"]
            /\ old_index' = [old_index EXCEPT ![w] = 0]
       ELSE /\ old_index' = [old_index EXCEPT ![w] = collection[e].order_index]
            /\ pc' = [pc EXCEPT ![w] =
                       IF IsNoOp(collection[e].order_index, new)
                       THEN "done" ELSE "shift"]
    /\ UNCHANGED <<collection, issued, last, useCaseVars, messageVars, entityVars>>

\* reorder: the bulk range shift (update_many), taken as one committed write
\* as the design describes it; the mover's own document is still at old_index
ReorderShift(w) ==
    /\ pc[w] = "shift"
    /\ collection' =
         [id \in DOMAIN collection |->
            [collection[id] EXCEPT !.order_index =
               ShiftedIndex(collection[id], call[w].profile_id,
                            old_index[w], call[w].new_order_index)]]
    /\ pc' = [pc EXCEPT ![w] = "move"]
    /\ writes' = [writes EXCEPT ![w] = @ + 1]
    /\ UNCHANGED <<call, old_index, pre, late>>
    /\ UNCHANGED <<issued, last, useCaseVars, messageVars, entityVars>>

\* reorder: the write of the mover's new index (update_one)
ReorderMove(w) ==
    /\ pc[w] = "move"
    /\ collection' =
         [id \in DOMAIN collection |->
            IF id = call[w].entity_id
            THEN SetOrderIndex(collection[id], old_index[w],
                               call[w].new_order_index)
            ELSE collection[id]]
    /\ pc' = [pc EXCEPT ![w] = "done"]
    /\ writes' = [writes EXCEPT ![w] = @ + 1]
    /\ late' = [late EXCEPT ![w] = pc[Other(w)] \in {"move", "done"}]
    /\ UNCHANGED <<call, old_index, pre>>
    /\ UNCHANGED <<issued, last, useCaseVars, messageVars, entityVars>>

\* ------------------------------------------------------------ use cases
ProfileIdInputs == Profiles \cup {""}
AddIndexInputs == (0 - 1)..MaxAddIndex

\* "not value or not value.strip()"
Blank(t) == t.blank

\* optional text: an empty or whitespace-only value is stored as None
Normalized(t) == IF t # None /\ t.blank THEN None ELSE t

\* an optional text of at most max characters
OptionalTextOk(t, max) == t = None \/ t.blank \/ t.len <= max

\* a required text of at most max characters
RequiredTextOk(t, max) == ~Blank(t) /\ t.len <= max

\* a datetime
At(t) == [t |-> t]

\* _validate_dates: end_date is None or end_date > start_date
DatesOk(start, end) == ~(end # None /\ end.t <= start.t)

Execution(op, request, status) ==
    [op |-> op, request |-> request, status |-> status]

NoExecution == Execution("none", None, "none")

\* uuid.uuid4(): an id never handed out before
FreshId == issued + 1

\* insert_one(doc)
InsertOne(c, id, doc) == c @@ (id :> doc)

\* ---- Skill
MAX_NAME_LENGTH == 50
SkillLevels == {"basic", "intermediate", "advanced", "expert"}

\* Skill.create: the validation of the new entity
SkillCreateOk(r) ==
    /\ r.profile_id # ""
    /\ RequiredTextOk(r.name, MAX_NAME_LENGTH)
    /\ ~Blank(r.category)
    /\ (r.level = None \/ r.level.s \in SkillLevels)
    /\ ValidOrderIndex(r.order_index)

\* count_documents({"name": name}) > 0: the profile_id filter is missing
ExistsByName_AnyProfile(c, p, n) ==
    Cardinality({id \in DOMAIN c : c[id].name = n}) > 0

\* SkillRepository.exists_by_name
ExistsByName(c, p, n) ==
    Cardinality({id \in DOMAIN c :
                   c[id].profile_id = p /\ c[id].name = n}) > 0

SkillRequests ==
    [ profile_id : ProfileIdInputs,
      name : { Txt(" ", 1, TRUE), Txt("go", 2, FALSE),
               Txt("py", 2, FALSE), Txt("x*51", 51, FALSE) },
      category : { Txt("", 0, TRUE), Txt("lang", 4, FALSE) },
      level : { Txt("expert", 6, FALSE), Txt("master", 6, FALSE) },
      order_index : AddIndexInputs ]

\* AddSkillUseCase.execute, run to completion
AddSkill(r) ==
    /\ IF ExistsByName(collection, r.profile_id, r.name)
       THEN /\ last' = Execution("AddSkill", r, "DuplicateException")
            /\ UNCHANGED <<collection, issued>>
       ELSE IF ~SkillCreateOk(r)
       THEN /\ last' = Execution("AddSkill", r, "DomainError")
            /\ UNCHANGED <<collection, issued>>
       ELSE /\ issued < MaxAdds
            /\ collection' = InsertOne(collection, FreshId,
                                Document(r.profile_id, r.name, r.order_index))
            /\ issued' = FreshId
            /\ last' = Execution("AddSkill", r, "ok")
    /\ UNCHANGED <<workerVars, useCaseVars, messageVars, entityVars>>

\* AddSkillUseCase.execute of call w up to its write: the exists_by_name
\* lookup, then Skill.create
AddSkillLookup(w, r) ==
    /\ pc[w] = "idle"
    /\ call' = [call EXCEPT ![w] = r]
    /\ pc' = [pc EXCEPT ![w] =
               IF ExistsByName(collection, r.profile_id, r.name)
                  \/ ~SkillCreateOk(r)
               THEN "raised" ELSE "insert"]
    /\ UNCHANGED <<old_index, pre, writes, late>>
    /\ UNCHANGED <<collection, issued, last, useCaseVars, messageVars,
                   entityVars>>

\* AddSkillUseCase.execute of call w: await self.skill_repo.add(skill)
AddSkillInsert(w) ==
    /\ pc[w] = "insert"
    /\ collection' = InsertOne(collection, FreshId,
                               Document(call[w].profile_id, call[w].name,
                                        call[w].order_index))
    /\ issued' = FreshId
    /\ pc' = [pc EXCEPT ![w] = "done"]
    /\ UNCHANGED <<call, old_index, pre, writes, late>>
    /\ UNCHANGED <<last, useCaseVars, messageVars, entityVars>>

\* ---- Education, WorkExperience
MAX_INSTITUTION_LENGTH == 100
MAX_DEGREE_LENGTH == 100
MAX_FIELD_LENGTH == 100
MAX_DESCRIPTION_LENGTH == 1000
MAX_ROLE_LENGTH == 100
MAX_COMPANY_LENGTH == 100
MAX_EXPERIENCE_DESCRIPTION_LENGTH == 2000
MAX_RESPONSIBILITIES == 20
MAX_RESPONSIBILITY_LENGTH == 500

\* Education.__post_init__
EducationCreateOk(r) ==
    /\ r.profile_id # ""
    /\ RequiredTextOk(r.institution, MAX_INSTITUTION_LENGTH)
    /\ RequiredTextOk(r.degree, MAX_DEGREE_LENGTH)
    /\ RequiredTextOk(r.field, MAX_FIELD_LENGTH)
    /\ OptionalTextOk(r.description, MAX_DESCRIPTION_LENGTH)
    /\ DatesOk(r.start_date, r.end_date)
    /\ ValidOrderIndex(r.order_index)

\* WorkExperience.__post_init__
ExperienceCreateOk(r) ==
    /\ r.profile_id # ""
    /\ RequiredTextOk(r.role, MAX_ROLE_LENGTH)
    /\ RequiredTextOk(r.company, MAX_COMPANY_LENGTH)
    /\ OptionalTextOk(r.description, MAX_EXPERIENCE_DESCRIPTION_LENGTH)
    /\ DatesOk(r.start_date, r.end_date)
    /\ Len(r.responsibilities) <= MAX_RESPONSIBILITIES
    /\ \A k \in 1..Len(r.responsibilities) :
          RequiredTextOk(r.responsibilities[k], MAX_RESPONSIBILITY_LENGTH)
    /\ ValidOrderIndex(r.order_index)

\* EducationMapper.to_persistence of the created entity
EducationDocument(r) ==
    [profile_id |-> r.profile_id, institution |-> r.institution,
     order_index |-> r.order_index, start_date |-> r.start_date,
     end_date |-> r.end_date]

\* the persisted form of a created WorkExperience
ExperienceDocument(r) ==
    [profile_id |-> r.profile_id, role |-> r.role,
     order_index |-> r.order_index, start_date |-> r.start_date,
     end_date |-> r.end_date]

\* get_by_order_index(profile_id, order_index): a stored document or None
GetByOrderIndex(c, p, i) ==
    LET hits == {id \in DOMAIN c :
                   c[id].profile_id = p /\ c[id].order_index = i}
    IN  IF hits = {} THEN None ELSE c[CHOOSE id \in hits : TRUE]

\* the lookup made without the profile_id
Existing_AnyProfile(c, r) ==
    \E id \in DOMAIN c : c[id].order_index = r.order_index

\* "if existing:" after the lookup by (request.profile_id, request.order_index)
Existing(c, r) == GetByOrderIndex(c, r.profile_id, r.order_index) # None

EducationRequests ==
    [ profile_id : ProfileIdInputs,
      institution : { Txt("MIT", 3, FALSE), Txt("x*101", 101, FALSE) },
      degree : { Txt("BSc", 3, FALSE) },
      field : { Txt("CS", 2, FALSE) },
      description : { None },
      start_date : { At(1) },
      end_date : { None, At(1), At(2) },
      order_index : AddIndexInputs ]

ExperienceRequests ==
    [ profile_id : ProfileIdInputs,
      role : { Txt("dev", 3, FALSE) },
      company : { Txt("acme", 4, FALSE) },
      description : { None },
      start_date : { At(1) },
      end_date : { None, At(1) },
      responsibilities : { <<>>, <<Txt("", 0, TRUE)>> },
      order_index : AddIndexInputs ]

\* AddEducationUseCase.execute that builds the entity before the lookup
AddEducation_CreateFirst(r) ==
    /\ IF ~EducationCreateOk(r)
       THEN /\ last' = Execution("AddEducation", r, "DomainError")
            /\ UNCHANGED <<educations, issued>>
       ELSE IF Existing(educations, r)
       THEN /\ last' = Execution("AddEducation", r,
                                 "BusinessRuleViolationException")
            /\ UNCHANGED <<educations, issued>>
       ELSE /\ issued < MaxAdds
            /\ educations' = InsertOne(educations, FreshId, EducationDocument(r))
            /\ issued' = FreshId
            /\ last' = Execution("AddEducation", r, "ok")
    /\ UNCHANGED <<collection, experiences, profiles, workerVars, messageVars, entityVars>>

\* AddEducationUseCase.execute, run to completion
AddEducation(r) ==
    /\ IF Existing(educations, r)
       THEN /\ last' = Execution("AddEducation", r,
                                 "BusinessRuleViolationException")
            /\ UNCHANGED <<educations, issued>>
       ELSE IF ~EducationCreateOk(r)
       THEN /\ last' = Execution("AddEducation", r, "DomainError")
            /\ UNCHANGED <<educations, issued>>
       ELSE /\ issued < MaxAdds
            /\ educations' = InsertOne(educations, FreshId, EducationDocument(r))
            /\ issued' = FreshId
            /\ last' = Execution("AddEducation", r, "ok")
    /\ UNCHANGED <<collection, experiences, profiles, workerVars, messageVars, entityVars>>

\* AddExperienceUseCase.execute, run to completion
AddExperience(r) ==
    /\ IF Existing(experiences, r)
       THEN /\ last' = Execution("AddExperience", r,
                                 "BusinessRuleViolationException")
            /\ UNCHANGED <<experiences, issued>>
       ELSE IF ~ExperienceCreateOk(r)
       THEN /\ last' = Execution("AddExperience", r, "DomainError")
            /\ UNCHANGED <<experiences, issued>>
       ELSE /\ issued < MaxAdds
            /\ experiences' = InsertOne(experiences, FreshId, ExperienceDocument(r))
            /\ issued' = FreshId
            /\ last' = Execution("AddExperience", r, "ok")
    /\ UNCHANGED <<collection, educations, profiles, workerVars, messageVars, entityVars>>

\* ---- Profile
MAX_PROFILE_NAME_LENGTH == 100
MAX_HEADLINE_LENGTH == 100
MAX_BIO_LENGTH == 1000
MAX_LOCATION_LENGTH == 100

\* a str offered as a URL; url: URL_PATTERN matches it
Url(s, n, b, ok) == [s |-> s, len |-> n, blank |-> b, url |-> ok]

\* _validate_avatar_url
UrlOk(u) == u = None \/ u.blank \/ u.url

\* Profile.__post_init__
ProfileCreateOk(r) ==
    /\ RequiredTextOk(r.name, MAX_PROFILE_NAME_LENGTH)
    /\ RequiredTextOk(r.headline, MAX_HEADLINE_LENGTH)
    /\ OptionalTextOk(r.bio, MAX_BIO_LENGTH)
    /\ OptionalTextOk(r.location, MAX_LOCATION_LENGTH)
    /\ UrlOk(r.avatar_url)

\* the persisted form of the created Profile
ProfileDocument(r) ==
    [name |-> r.name, headline |-> r.headline, bio |-> Normalized(r.bio),
     location |-> Normalized(r.location),
     avatar_url |-> Normalized(r.avatar_url)]

\* IProfileRepository.profile_exists
ProfileExists(c) == DOMAIN c # {}

\* the existence check left out
MustReject_Never(c) == FALSE

\* "if await self.profile_repo.profile_exists(): raise DuplicateException"
MustReject(c) == ProfileExists(c)

ProfileRequests ==
    [ name : { Txt("", 0, TRUE), Txt("Ana", 3, FALSE), Txt("x*101", 101, FALSE) },
      headline : { Txt(" ", 1, TRUE), Txt("Dev", 3, FALSE) },
      bio : { None, Txt(" ", 1, TRUE), Txt("bio", 3, FALSE),
              Txt("x*1001", 1001, FALSE) },
      location : { None, Txt("Vigo", 4, FALSE) },
      avatar_url : { None, Url("https://a.io/me.png", 19, FALSE, TRUE),
                     Url("me.png", 6, FALSE, FALSE) } ]

\* CreateProfileUseCase.execute, run to completion
CreateProfile(r) ==
    /\ IF MustReject(profiles)
       THEN /\ last' = Execution("CreateProfile", r, "DuplicateException")
            /\ UNCHANGED <<profiles, issued>>
       ELSE IF ~ProfileCreateOk(r)
       THEN /\ last' = Execution("CreateProfile", r, "DomainError")
            /\ UNCHANGED <<profiles, issued>>
       ELSE /\ issued < MaxAdds
            /\ profiles' = InsertOne(profiles, FreshId, ProfileDocument(r))
            /\ issued' = FreshId
            /\ last' = Execution("CreateProfile", r, "ok")
    /\ UNCHANGED <<collection, educations, experiences, workerVars, messageVars, entityVars>>

\* ------------------------------------------------------ contact messages
MessageIds == 1..MaxMessages
MessageIdInputs == 1..(MaxMessages + 1)

\* ContactMessage.create: status pending, no read_at, no replied_at
NewMessage == [status |-> "pending", read_at |-> None, replied_at |-> None]

\* ContactMessage.mark_as_read that does not test the status
mark_as_read_Unguarded(m, t) ==
    [m EXCEPT !.status = "read", !.read_at = At(t)]

\* ContactMessage.mark_as_read at time t
mark_as_read(m, t) ==
    IF m.status = "pending"
    THEN [m EXCEPT !.status = "read", !.read_at = At(t)]
    ELSE m

\* ContactMessage.mark_as_replied that stamps read_at even when it is set
mark_as_replied_Overwrite(m, t) ==
    IF m.status \in {"pending", "read"}
    THEN [status |-> "replied", read_at |-> At(t), replied_at |-> At(t)]
    ELSE m

\* ContactMessage.mark_as_replied at time t
mark_as_replied(m, t) ==
    IF m.status \in {"pending", "read"}
    THEN [status |-> "replied",
          read_at |-> IF m.read_at = None THEN At(t) ELSE m.read_at,
          replied_at |-> At(t)]
    ELSE m

\* ContactMessage.is_read
is_read(m) == m.status \in {"read", "replied"}

Returned(op, id, result) == [op |-> op, message_id |-> id, result |-> result]

NoReturn == Returned("none", 0, FALSE)

\* message.mark_as_read()
EntityMarkAsRead ==
    /\ message' = mark_as_read(message, now)
    /\ UNCHANGED <<contact_messages, now, returned>>
    /\ UNCHANGED <<collection, issued, last, workerVars, useCaseVars, entityVars>>

\* message.mark_as_replied()
EntityMarkAsReplied ==
    /\ message' = mark_as_replied(message, now)
    /\ UNCHANGED <<contact_messages, now, returned>>
    /\ UNCHANGED <<collection, issued, last, workerVars, useCaseVars, entityVars>>

\* the filter {"_id": message_id, "status": "pending"}
MatchesRead(c, id) == id \in DOMAIN c /\ c[id].status = "pending"

\* the filter {"_id": message_id, "status": {"$in": ["pending", "read"]}}
MatchesReplied(c, id) == id \in DOMAIN c /\ c[id].status \in {"pending", "read"}

\* ContactMessageRepository.mark_as_read(message_id)
RepoMarkAsRead(id) ==
    /\ IF MatchesRead(contact_messages, id)
       THEN contact_messages' =
              [contact_messages EXCEPT ![id] =
                 [@ EXCEPT !.status = "read", !.read_at = At(now)]]
       ELSE UNCHANGED contact_messages
    /\ returned' = Returned("mark_as_read", id, MatchesRead(contact_messages, id))
    /\ UNCHANGED <<message, now>>
    /\ UNCHANGED <<collection, issued, last, workerVars, useCaseVars, entityVars>>

\* ContactMessageRepository.mark_as_replied(message_id)
RepoMarkAsReplied(id) ==
    /\ IF MatchesReplied(contact_messages, id)
       THEN contact_messages' =
              [contact_messages EXCEPT ![id] =
                 [@ EXCEPT !.status = "replied", !.replied_at = At(now),
                           !.read_at = At(now)]]
       ELSE UNCHANGED contact_messages
    /\ returned' = Returned("mark_as_replied", id,
                            MatchesReplied(contact_messages, id))
    /\ UNCHANGED <<message, now>>
    /\ UNCHANGED <<collection, issued, last, workerVars, useCaseVars, entityVars>>

\* time passes between two calls of datetime.utcnow()
Tick ==
    /\ now < MaxClock
    /\ now' = now + 1
    /\ UNCHANGED <<message, contact_messages, returned>>
    /\ UNCHANGED <<collection, issued, last, workerVars, useCaseVars, entityVars>>

\* ------------------------------------------------------ entity objects
MaxDate == 2

Dates == { At(t) : t \in 1..MaxDate }

\* the outcome of a method call: the object as the call leaves it, and
\* "ok" or the exception raised
Outcome(e, status) == [entity |-> e, status |-> status]

RECURSIVE FirstError(_)
\* validations run one after another: the first exception raised, else "ok"
FirstError(checks) ==
    IF checks = <<>> THEN "ok"
    ELSE IF Head(checks) # "ok" THEN Head(checks)
    ELSE FirstError(Tail(checks))

\* _validate_profile_id
validate_profile_id(e) ==
    IF e.profile_id = "" THEN "EmptyFieldError:profile_id" ELSE "ok"

\* _validate_dates that accepts an end equal to the start
validate_dates_NonStrict(start, end) ==
    IF end # None /\ end.t < start.t THEN "InvalidDateRangeError" ELSE "ok"

\* _validate_dates
validate_dates(start, end) ==
    IF end # None /\ end.t <= start.t THEN "InvalidDateRangeError" ELSE "ok"

\* _validate_order_index
validate_order_index(e) ==
    IF e.order_index < 0 THEN "InvalidOrderIndexError" ELSE "ok"

\* a required text field: "cannot be empty", then the max length
validate_required(t, max, emptyError, lengthError) ==
    IF Blank(t) THEN emptyError
    ELSE IF t.len > max THEN lengthError
    ELSE "ok"

\* an optional text field: None and blank pass, else the max length
validate_optional(t, max, lengthError) ==
    IF t # None /\ ~t.blank /\ t.len > max THEN lengthError ELSE "ok"

\* an optional URL field: None and blank pass, else URL_PATTERN
validate_url(u, urlError) ==
    IF u # None /\ ~u.blank /\ ~u.url THEN urlError ELSE "ok"

\* the call op(request) leaves the object and the exception of outcome o
Called(op, request, o) ==
    /\ entity' = o.entity
    /\ last' = Execution(op, request, o.status)
    /\ UNCHANGED <<collection, issued, persisted, edit, workerVars, useCaseVars,
                   messageVars>>

\* no constructor has been called: create does not depend on any object
\* made before, so one object is followed from the first call on
NoObjectYet == entity = None /\ last = NoExecution

\* ------------------------------------------------------------- Project
MAX_TITLE_LENGTH == 100
MIN_DESCRIPTION_LENGTH == 10
MAX_PROJECT_DESCRIPTION_LENGTH == 2000
MIN_DESCRIPTION_WITHOUT_URLS == 100
MAX_TECHNOLOGIES == 20
MAX_TECHNOLOGY_LENGTH == 50

\* Project.has_urls: bool(self.live_url or self.repo_url)
has_urls(e) ==
    \/ e.live_url # None /\ e.live_url.len > 0
    \/ e.repo_url # None /\ e.repo_url.len > 0

\* Project._validate_title
Project_validate_title(e) ==
    validate_required(e.title, MAX_TITLE_LENGTH,
                      "InvalidTitleError", "InvalidLengthError:title")

\* Project._validate_description
Project_validate_description(e) ==
    IF Blank(e.description) THEN "InvalidDescriptionError:empty"
    ELSE IF e.description.len < MIN_DESCRIPTION_LENGTH
         THEN "InvalidLengthError:description:min"
    ELSE IF e.description.len > MAX_PROJECT_DESCRIPTION_LENGTH
         THEN "InvalidLengthError:description:max"
    ELSE "ok"

\* Project._validate_description_sufficiency
Project_validate_description_sufficiency(e) ==
    IF ~has_urls(e) /\ e.description.len < MIN_DESCRIPTION_WITHOUT_URLS
    THEN "InvalidDescriptionError:sufficiency"
    ELSE "ok"

\* Project._validate_urls: the exception it raises, if any
Project_validate_urls(e) ==
    FirstError(<<validate_url(e.live_url, "InvalidURLError:live_url"),
                 validate_url(e.repo_url, "InvalidURLError:repo_url")>>)

\* Project._validate_urls: the object as it leaves it (a blank URL becomes
\* None; repo_url is not reached when live_url raises)
Project_urls_normalized(e) ==
    IF validate_url(e.live_url, "InvalidURLError:live_url") # "ok" THEN e
    ELSE [e EXCEPT !.live_url = Normalized(@), !.repo_url = Normalized(@)]

RECURSIVE validate_items(_, _, _, _)
\* for item in items: empty, then too long
validate_items(items, max, emptyError, lengthError) ==
    IF items = <<>> THEN "ok"
    ELSE IF validate_required(Head(items), max, emptyError, lengthError) # "ok"
         THEN validate_required(Head(items), max, emptyError, lengthError)
    ELSE validate_items(Tail(items), max, emptyError, lengthError)

\* Project._validate_technologies
Project_validate_technologies(e) ==
    IF Len(e.technologies) > MAX_TECHNOLOGIES
    THEN "InvalidLengthError:technologies"
    ELSE validate_items(e.technologies, MAX_TECHNOLOGY_LENGTH,
                        "EmptyFieldError:technology item",
                        "InvalidLengthError:technology item")

\* Project.__post_init__ that runs its checks by kind of rule: owner,
\* emptiness, lengths, dates and URLs, order_index
Project_post_init_ByCategory(e) ==
    FirstError(<<validate_profile_id(e),
                 IF Blank(e.title) THEN "InvalidTitleError" ELSE "ok",
                 IF Blank(e.description) THEN "InvalidDescriptionError:empty"
                 ELSE "ok",
                 Project_validate_title(e),
                 Project_validate_description(e),
                 Project_validate_technologies(e),
                 validate_dates(e.start_date, e.end_date),
                 Project_validate_urls(e),
                 Project_validate_description_sufficiency(
                     Project_urls_normalized(e)),
                 validate_order_index(e)>>)

\* Project.__post_init__: the validations in the order they run
Project_post_init(e) ==
    FirstError(<<validate_profile_id(e),
                 Project_validate_title(e),
                 Project_validate_description(e),
                 validate_dates(e.start_date, e.end_date),
                 Project_validate_urls(e),
                 Project_validate_technologies(e),
                 validate_order_index(e),
                 Project_validate_description_sufficiency(
                     Project_urls_normalized(e))>>)

\* Project.create(...): the object built, or the exception
Project_create(r) ==
    /\ NoObjectYet
    /\ Called("Project.create", r,
         LET e == [kind |-> "Project", profile_id |-> r.profile_id,
                   title |-> r.title, description |-> r.description,
                   start_date |-> r.start_date, end_date |-> r.end_date,
                   live_url |-> r.live_url, repo_url |-> r.repo_url,
                   technologies |-> r.technologies,
                   order_index |-> r.order_index]
         IN IF Project_post_init(e) = "ok"
            THEN Outcome(Project_urls_normalized(e), "ok")
            ELSE Outcome(None, Project_post_init(e)))

\* Project.update_info(title, description, start_date, end_date)
Project_update_info(a) ==
    /\ entity # None
    /\ entity.kind = "Project"
    /\ Called("Project.update_info", a,
         LET e == entity IN
         LET e1 == IF a.title # None THEN [e EXCEPT !.title = a.title] ELSE e
             x1 == IF a.title # None THEN Project_validate_title(e1) ELSE "ok"
             e2 == IF a.description # None
                   THEN [e1 EXCEPT !.description = a.description] ELSE e1
             x2 == IF a.description # None
                   THEN Project_validate_description(e2) ELSE "ok"
             e3 == IF a.start_date # None
                   THEN [e2 EXCEPT !.start_date = a.start_date] ELSE e2
             e4 == IF a.end_date # None
                   THEN [e3 EXCEPT !.end_date = a.end_date] ELSE e3
         IN IF x1 # "ok" THEN Outcome(e1, x1)
            ELSE IF x2 # "ok" THEN Outcome(e2, x2)
            ELSE Outcome(e4,
                   FirstError(<<validate_dates(e4.start_date, e4.end_date),
                                Project_validate_description_sufficiency(e4)>>)))

\* Project.update_urls(live_url, repo_url)
Project_update_urls(a) ==
    /\ entity # None
    /\ entity.kind = "Project"
    /\ Called("Project.update_urls", a,
         LET e == entity IN
         LET e1 == IF a.live_url # None THEN [e EXCEPT !.live_url = a.live_url]
                   ELSE e
             e2 == IF a.repo_url # None THEN [e1 EXCEPT !.repo_url = a.repo_url]
                   ELSE e1
             e3 == Project_urls_normalized(e2)
         IN Outcome(e3,
              FirstError(<<Project_validate_urls(e2),
                           Project_validate_description_sufficiency(e3)>>)))

\* ----------------------------------------------------------- Education
\* Education.__post_init__: the validations in the order they run
Education_post_init(e) ==
    FirstError(<<validate_profile_id(e),
                 validate_required(e.institution, MAX_INSTITUTION_LENGTH,
                     "InvalidInstitutionError", "InvalidLengthError:institution"),
                 validate_required(e.degree, MAX_DEGREE_LENGTH,
                     "EmptyFieldError:degree", "InvalidLengthError:degree"),
                 validate_required(e.field, MAX_FIELD_LENGTH,
                     "EmptyFieldError:field", "InvalidLengthError:field"),
                 validate_optional(e.description, MAX_DESCRIPTION_LENGTH,
                     "InvalidLengthError:description"),
                 validate_dates(e.start_date, e.end_date),
                 validate_order_index(e)>>)

\* Education.create(...)
Education_create(r) ==
    /\ NoObjectYet
    /\ Called("Education.create", r,
         LET e == [kind |-> "Education", profile_id |-> r.profile_id,
                   institution |-> r.institution, degree |-> r.degree,
                   field |-> r.field, description |-> r.description,
                   start_date |-> r.start_date, end_date |-> r.end_date,
                   order_index |-> r.order_index]
         IN IF Education_post_init(e) = "ok"
            THEN Outcome([e EXCEPT !.description = Normalized(@)], "ok")
            ELSE Outcome(None, Education_post_init(e)))

\* Education.update_info(institution, degree, field, description,
\* start_date, end_date)
Education_update_info(a) ==
    /\ entity # None
    /\ entity.kind = "Education"
    /\ Called("Education.update_info", a,
         LET e == entity IN
         LET e1 == IF a.institution # None
                   THEN [e EXCEPT !.institution = a.institution] ELSE e
             x1 == IF a.institution # None
                   THEN validate_required(e1.institution, MAX_INSTITUTION_LENGTH,
                       "InvalidInstitutionError", "InvalidLengthError:institution") ELSE "ok"
             e2 == IF a.degree # None THEN [e1 EXCEPT !.degree = a.degree] ELSE e1
             x2 == IF a.degree # None THEN validate_required(e2.degree, MAX_DEGREE_LENGTH,
                 "EmptyFieldError:degree", "InvalidLengthError:degree") ELSE "ok"
             e3 == IF a.field # None THEN [e2 EXCEPT !.field = a.field] ELSE e2
             x3 == IF a.field # None THEN validate_required(e3.field, MAX_FIELD_LENGTH,
                 "EmptyFieldError:field", "InvalidLengthError:field") ELSE "ok"
             e4 == IF a.description # None
                   THEN [e3 EXCEPT !.description = a.description] ELSE e3
             x4 == IF a.description # None
                   THEN validate_optional(e4.description, MAX_DESCRIPTION_LENGTH,
                       "InvalidLengthError:description") ELSE "ok"
             e5 == [e4 EXCEPT !.description =
                      IF a.description # None THEN Normalized(@) ELSE @]
             e6 == IF a.start_date # None
                   THEN [e5 EXCEPT !.start_date = a.start_date] ELSE e5
             e7 == IF a.end_date # None
                   THEN [e6 EXCEPT !.end_date = a.end_date] ELSE e6
         IN IF x1 # "ok" THEN Outcome(e1, x1)
            ELSE IF x2 # "ok" THEN Outcome(e2, x2)
            ELSE IF x3 # "ok" THEN Outcome(e3, x3)
            ELSE IF x4 # "ok" THEN Outcome(e4, x4)
            ELSE Outcome(e7, validate_dates(e7.start_date, e7.end_date)))

\* ------------------------------------------------------ WorkExperience
\* WorkExperience._validate_responsibilities
WorkExperience_validate_responsibilities(e) ==
    IF Len(e.responsibilities) > MAX_RESPONSIBILITIES
    THEN "InvalidLengthError:responsibilities"
    ELSE validate_items(e.responsibilities, MAX_RESPONSIBILITY_LENGTH,
                        "EmptyFieldError:responsibility item",
                        "InvalidLengthError:responsibility item")

\* WorkExperience.__post_init__: the validations in the order they run
WorkExperience_post_init(e) ==
    FirstError(<<validate_profile_id(e),
                 validate_required(e.role, MAX_ROLE_LENGTH,
                     "InvalidRoleError", "InvalidLengthError:role"),
                 validate_required(e.company, MAX_COMPANY_LENGTH,
                     "InvalidCompanyError", "InvalidLengthError:company"),
                 validate_optional(e.description, MAX_EXPERIENCE_DESCRIPTION_LENGTH,
                     "InvalidLengthError:description"),
                 validate_dates(e.start_date, e.end_date),
                 WorkExperience_validate_responsibilities(e),
                 validate_order_index(e)>>)

\* WorkExperience.create(...)
WorkExperience_create(r) ==
    /\ NoObjectYet
    /\ Called("WorkExperience.create", r,
         LET e == [kind |-> "WorkExperience", profile_id |-> r.profile_id,
                   role |-> r.role, company |-> r.company,
                   description |-> r.description,
                   start_date |-> r.start_date, end_date |-> r.end_date,
                   responsibilities |-> r.responsibilities,
                   order_index |-> r.order_index]
         IN IF WorkExperience_post_init(e) = "ok"
            THEN Outcome([e EXCEPT !.description = Normalized(@)], "ok")
            ELSE Outcome(None, WorkExperience_post_init(e)))

\* WorkExperience.update_info(role, company, description, start_date,
\* end_date)
WorkExperience_update_info(a) ==
    /\ entity # None
    /\ entity.kind = "WorkExperience"
    /\ Called("WorkExperience.update_info", a,
         LET e == entity IN
         LET e1 == IF a.role # None THEN [e EXCEPT !.role = a.role] ELSE e
             x1 == IF a.role # None THEN validate_required(e1.role, MAX_ROLE_LENGTH,
                 "InvalidRoleError", "InvalidLengthError:role") ELSE "ok"
             e2 == IF a.company # None
                   THEN [e1 EXCEPT !.company = a.company] ELSE e1
             x2 == IF a.company # None
                   THEN validate_required(e2.company, MAX_COMPANY_LENGTH,
                       "InvalidCompanyError", "InvalidLengthError:company") ELSE "ok"
             e3 == IF a.description # None
                   THEN [e2 EXCEPT !.description = a.description] ELSE e2
             x3 == IF a.description # None
                   THEN validate_optional(e3.description, MAX_EXPERIENCE_DESCRIPTION_LENGTH,
                       "InvalidLengthError:description") ELSE "ok"
             e4 == [e3 EXCEPT !.description =
                      IF a.description # None THEN Normalized(@) ELSE @]
             e5 == IF a.start_date # None
                   THEN [e4 EXCEPT !.start_date = a.start_date] ELSE e4
             e6 == IF a.end_date # None
                   THEN [e5 EXCEPT !.end_date = a.end_date] ELSE e5
         IN IF x1 # "ok" THEN Outcome(e1, x1)
            ELSE IF x2 # "ok" THEN Outcome(e2, x2)
            ELSE IF x3 # "ok" THEN Outcome(e3, x3)
            ELSE Outcome(e6, validate_dates(e6.start_date, e6.end_date)))

\* ------------------------------------------------------- Certification
MAX_ISSUER_LENGTH == 100
MAX_CREDENTIAL_ID_LENGTH == 100

\* Certification.__post_init__: the validations in the order they run
Certification_post_init(e) ==
    FirstError(<<validate_profile_id(e),
                 validate_required(e.title, MAX_TITLE_LENGTH,
                     "InvalidTitleError", "InvalidLengthError:title"),
                 validate_required(e.issuer, MAX_ISSUER_LENGTH,
                     "InvalidIssuerError", "InvalidLengthError:issuer"),
                 validate_dates(e.issue_date, e.expiry_date),
                 validate_optional(e.credential_id, MAX_CREDENTIAL_ID_LENGTH,
                     "InvalidLengthError:credential_id"),
                 validate_url(e.credential_url,
                     "InvalidURLError:credential_url"),
                 validate_order_index(e)>>)

\* Certification.create(...)
Certification_create(r) ==
    /\ NoObjectYet
    /\ Called("Certification.create", r,
         LET e == [kind |-> "Certification", profile_id |-> r.profile_id,
                   title |-> r.title, issuer |-> r.issuer,
                   issue_date |-> r.issue_date, expiry_date |-> r.expiry_date,
                   credential_id |-> r.credential_id,
                   credential_url |-> r.credential_url,
                   order_index |-> r.order_index]
         IN IF Certification_post_init(e) = "ok"
            THEN Outcome([e EXCEPT !.credential_id = Normalized(@),
                                   !.credential_url = Normalized(@)], "ok")
            ELSE Outcome(None, Certification_post_init(e)))

\* Certification.update_info(title, issuer, issue_date, expiry_date,
\* credential_id, credential_url)
Certification_update_info(a) ==
    /\ entity # None
    /\ entity.kind = "Certification"
    /\ Called("Certification.update_info", a,
         LET e == entity IN
         LET e1 == IF a.title # None THEN [e EXCEPT !.title = a.title] ELSE e
             x1 == IF a.title # None THEN validate_required(e1.title, MAX_TITLE_LENGTH,
                 "InvalidTitleError", "InvalidLengthError:title") ELSE "ok"
             e2 == IF a.issuer # None THEN [e1 EXCEPT !.issuer = a.issuer] ELSE e1
             x2 == IF a.issuer # None
                   THEN validate_required(e2.issuer, MAX_ISSUER_LENGTH,
                       "InvalidIssuerError", "InvalidLengthError:issuer") ELSE "ok"
             e3 == IF a.issue_date # None
                   THEN [e2 EXCEPT !.issue_date = a.issue_date] ELSE e2
             e4 == IF a.expiry_date # None
                   THEN [e3 EXCEPT !.expiry_date = a.expiry_date] ELSE e3
             e5 == IF a.credential_id # None
                   THEN [e4 EXCEPT !.credential_id = a.credential_id] ELSE e4
             x5 == IF a.credential_id # None
                   THEN validate_optional(e5.credential_id, MAX_CREDENTIAL_ID_LENGTH,
                       "InvalidLengthError:credential_id") ELSE "ok"
             e6 == [e5 EXCEPT !.credential_id =
                      IF a.credential_id # None THEN Normalized(@) ELSE @]
             e7 == IF a.credential_url # None
                   THEN [e6 EXCEPT !.credential_url = a.credential_url] ELSE e6
             x7 == IF a.credential_url # None
                   THEN validate_url(e7.credential_url,
                       "InvalidURLError:credential_url") ELSE "ok"
             e8 == [e7 EXCEPT !.credential_url =
                      IF a.credential_url # None THEN Normalized(@) ELSE @]
         IN IF x1 # "ok" THEN Outcome(e1, x1)
            ELSE IF x2 # "ok" THEN Outcome(e2, x2)
            ELSE IF x5 # "ok" THEN Outcome(e5, x5)
            ELSE IF x7 # "ok" THEN Outcome(e7, x7)
            ELSE Outcome(e8, validate_dates(e8.issue_date, e8.expiry_date)))

\* -------------------------------------------------- AdditionalTraining
MAX_PROVIDER_LENGTH == 100
MAX_DURATION_LENGTH == 50
MAX_TRAINING_DESCRIPTION_LENGTH == 500

\* AdditionalTraining.__post_init__: the validations in the order they run
AdditionalTraining_post_init(e) ==
    FirstError(<<validate_profile_id(e),
                 validate_required(e.title, MAX_TITLE_LENGTH,
                     "InvalidTitleError", "InvalidLengthError:title"),
                 validate_required(e.provider, MAX_PROVIDER_LENGTH,
                     "InvalidProviderError", "InvalidLengthError:provider"),
                 validate_optional(e.duration, MAX_DURATION_LENGTH,
                     "InvalidLengthError:duration"),
                 validate_url(e.certificate_url,
                     "InvalidURLError:certificate_url"),
                 validate_optional(e.description,
                     MAX_TRAINING_DESCRIPTION_LENGTH,
                     "InvalidLengthError:description"),
                 validate_order_index(e)>>)

\* AdditionalTraining.create(...)
AdditionalTraining_create(r) ==
    /\ NoObjectYet
    /\ Called("AdditionalTraining.create", r,
         LET e == [kind |-> "AdditionalTraining", profile_id |-> r.profile_id,
                   title |-> r.title, provider |-> r.provider,
                   completion_date |-> r.completion_date,
                   duration |-> r.duration,
                   certificate_url |-> r.certificate_url,
                   description |-> r.description,
                   order_index |-> r.order_index]
         IN IF AdditionalTraining_post_init(e) = "ok"
            THEN Outcome([e EXCEPT !.duration = Normalized(@),
                                   !.certificate_url = Normalized(@),
                                   !.description = Normalized(@)], "ok")
            ELSE Outcome(None, AdditionalTraining_post_init(e)))

\* ------------------------------------------- calls on an entity object
OwnerInputs == {"p1", ""}
OrderInputs == {0 - 1, 0}
\* the arguments each call is made with: valid values and values that
\* break each rule of the entity
Requests(op) ==
    LET TitleInputs ==
            {Txt("api", 3, FALSE), Txt("", 0, TRUE),
             Txt("x*101", 101, FALSE)}
        UrlInputs ==
            {None, Url(" ", 1, TRUE, FALSE),
             Url("https://a.io", 12, FALSE, TRUE),
             Url("ftp:x", 5, FALSE, FALSE)}
    IN CASE
          op = "Project.create" ->
            [profile_id : OwnerInputs,
             title : TitleInputs,
             description : {Txt(" ", 1, TRUE), Txt("d*5", 5, FALSE),
                            Txt("d*10", 10, FALSE), Txt("d*100", 100, FALSE),
                            Txt("d*2001", 2001, FALSE)},
             start_date : Dates,
             end_date : {None} \cup Dates,
             live_url : UrlInputs,
             repo_url : {None, Url("https://git.io/r", 16, FALSE, TRUE)},
             technologies : {<<>>, [k \in 1..(MAX_TECHNOLOGIES + 1) |->
                                      Txt("go", 2, FALSE)]},
             order_index : OrderInputs]
       [] op = "Project.update_info" ->
            [title : {None, Txt("web", 3, FALSE), Txt("", 0, TRUE)},
             description : {None, Txt("d*5", 5, FALSE), Txt("e*100", 100, FALSE)},
             start_date : {None} \cup Dates,
             end_date : {None} \cup Dates]
       [] op = "Project.update_urls" ->
            [live_url : UrlInputs,
             repo_url : {None, Url("", 0, TRUE, FALSE),
                         Url("https://git.io/r", 16, FALSE, TRUE)}]
       [] op = "Education.create" ->
            [profile_id : OwnerInputs,
             institution : {Txt("MIT", 3, FALSE), Txt("x*101", 101, FALSE)},
             degree : {Txt("BSc", 3, FALSE)},
             field : {Txt("CS", 2, FALSE), Txt(" ", 1, TRUE)},
             description : {None, Txt(" ", 1, TRUE), Txt("x*1001", 1001, FALSE)},
             start_date : Dates,
             end_date : {None} \cup Dates,
             order_index : OrderInputs]
       [] op = "Education.update_info" ->
            [institution : {None, Txt("ETH", 3, FALSE), Txt("x*101", 101, FALSE)},
             degree : {None},
             field : {None, Txt(" ", 1, TRUE)},
             description : {None, Txt("x*1001", 1001, FALSE)},
             start_date : {None} \cup Dates,
             end_date : {None} \cup Dates]
       [] op = "WorkExperience.create" ->
            [profile_id : OwnerInputs,
             role : {Txt("dev", 3, FALSE), Txt("", 0, TRUE)},
             company : {Txt("acme", 4, FALSE)},
             description : {None},
             start_date : Dates,
             end_date : {None} \cup Dates,
             responsibilities : {<<>>, <<Txt("", 0, TRUE)>>},
             order_index : OrderInputs]
       [] op = "WorkExperience.update_info" ->
            [role : {None, Txt("x*101", 101, FALSE)},
             company : {None},
             description : {None, Txt("x*2001", 2001, FALSE)},
             start_date : {None} \cup Dates,
             end_date : {None} \cup Dates]
       [] op = "Certification.create" ->
            [profile_id : OwnerInputs,
             title : TitleInputs,
             issuer : {Txt("AWS", 3, FALSE), Txt("", 0, TRUE)},
             issue_date : Dates,
             expiry_date : {None} \cup Dates,
             credential_id : {None, Txt("x*101", 101, FALSE)},
             credential_url : {None, Url("ftp:x", 5, FALSE, FALSE)},
             order_index : OrderInputs]
       [] op = "Certification.update_info" ->
            [title : {None, Txt("", 0, TRUE)},
             issuer : {None},
             issue_date : {None} \cup Dates,
             expiry_date : {None} \cup Dates,
             credential_id : {None, Txt("x*101", 101, FALSE)},
             credential_url : {None, Url("ftp:x", 5, FALSE, FALSE)}]
       [] op = "AdditionalTraining.create" ->
            [profile_id : OwnerInputs,
             title : TitleInputs,
             provider : {Txt("edX", 3, FALSE), Txt("", 0, TRUE)},
             completion_date : {At(1)},
             duration : {None, Txt("x*51", 51, FALSE)},
             certificate_url : {None, Url("ftp:x", 5, FALSE, FALSE)},
             description : {None, Txt("x*501", 501, FALSE)},
             order_index : OrderInputs]

\* --------------------------------------------------------------- delete
\* result.deleted_count that is 1 whatever the filter matched
DeletedCount_Always(c, id) == 1

\* delete_one({"_id": entity_id}): result.deleted_count
DeletedCount(c, id) == IF id \in DOMAIN c THEN 1 ELSE 0

\* delete_one that closes the gap the removed document leaves
DeleteOne_Compacting(c, id) ==
    [x \in DOMAIN c \ {id} |->
       IF /\ id \in DOMAIN c
          /\ c[x].profile_id = c[id].profile_id
          /\ c[x].order_index > c[id].order_index
       THEN [c[x] EXCEPT !.order_index = @ - 1]
       ELSE c[x]]

\* delete_one({"_id": entity_id}): the collection it leaves
DeleteOne(c, id) == [x \in DOMAIN c \ {id} |-> c[x]]

\* SkillRepository.delete(entity_id)
Delete(id) ==
    /\ collection' = DeleteOne(collection, id)
    /\ last' = Execution("delete", id,
                         IF DeletedCount(collection, id) > 0 THEN "True"
                         ELSE "False")
    /\ pre' = [pre EXCEPT ![1] = collection]
    /\ UNCHANGED <<pc, call, old_index, writes, late>>
    /\ UNCHANGED <<issued, useCaseVars, messageVars, entityVars>>

\* ------------------------------------------- get_all_ordered, called
\* get_all_ordered(profile_id, ascending) returns one of the orders the
\* store may give
CallGetAllOrdered(p, ascending) ==
    /\ \E r \in GetAllOrdered(collection, p, ascending) :
          last' = Execution("get_all_ordered",
                            [profile_id |-> p, ascending |-> ascending], r)
    /\ UNCHANGED <<collection, issued, workerVars, useCaseVars, messageVars,
                   entityVars>>

\* -------------------------------------------------------------- mappers
\* a document key that is left out when its value is None
Put(k, v) == IF v = None THEN <<>> ELSE (k :> v)

\* persistence_model.get(k, default)
Get(d, k, default) == IF k \in DOMAIN d THEN d[k] ELSE default

\* a str id
Id(s) == [str |-> s]

\* str(persistence_model["_id"])
Str(v) == IF "oid" \in DOMAIN v THEN [str |-> v.oid] ELSE v

\* the dataclass is built, then __post_init__ validates and normalises it
Loaded(e, status, normalized) ==
    IF status = "ok" THEN Outcome(normalized, "ok") ELSE Outcome(None, status)

\* ProjectMapper.to_domain
Project_to_domain(d) ==
    LET e == [kind |-> "Project", id |-> Str(d["_id"]),
              profile_id |-> d.profile_id, title |-> d.title,
              description |-> d.description, start_date |-> d.start_date,
              order_index |-> d.order_index,
              end_date |-> Get(d, "end_date", None),
              live_url |-> Get(d, "live_url", None),
              repo_url |-> Get(d, "repo_url", None),
              technologies |-> Get(d, "technologies", <<>>),
              created_at |-> d.created_at, updated_at |-> d.updated_at]
    IN Loaded(e, Project_post_init(e), Project_urls_normalized(e))

\* ProjectMapper.to_persistence that writes every key, None included
Project_to_persistence_AllKeys(e) ==
    [_id |-> e.id, profile_id |-> e.profile_id, title |-> e.title,
     description |-> e.description, start_date |-> e.start_date,
     order_index |-> e.order_index, technologies |-> e.technologies,
     created_at |-> e.created_at, updated_at |-> e.updated_at,
     end_date |-> e.end_date, live_url |-> e.live_url,
     repo_url |-> e.repo_url]

\* ProjectMapper.to_persistence
Project_to_persistence(e) ==
    [_id |-> e.id, profile_id |-> e.profile_id, title |-> e.title,
     description |-> e.description, start_date |-> e.start_date,
     order_index |-> e.order_index, technologies |-> e.technologies,
     created_at |-> e.created_at, updated_at |-> e.updated_at]
      @@ Put("end_date", e.end_date) @@ Put("live_url", e.live_url)
      @@ Put("repo_url", e.repo_url)

\* EducationMapper.to_domain
Education_to_domain(d) ==
    LET e == [kind |-> "Education", id |-> Str(d["_id"]),
              profile_id |-> d.profile_id, institution |-> d.institution,
              degree |-> d.degree, field |-> d.field,
              start_date |-> d.start_date, order_index |-> d.order_index,
              description |-> Get(d, "description", None),
              end_date |-> Get(d, "end_date", None),
              created_at |-> d.created_at, updated_at |-> d.updated_at]
    IN Loaded(e, Education_post_init(e),
              [e EXCEPT !.description = Normalized(@)])

\* EducationMapper.to_persistence
Education_to_persistence(e) ==
    [_id |-> e.id, profile_id |-> e.profile_id,
     institution |-> e.institution, degree |-> e.degree, field |-> e.field,
     start_date |-> e.start_date, order_index |-> e.order_index,
     created_at |-> e.created_at, updated_at |-> e.updated_at]
      @@ Put("description", e.description) @@ Put("end_date", e.end_date)

MAX_MESSAGE_NAME_LENGTH == 100
MIN_MESSAGE_LENGTH == 10
MAX_MESSAGE_LENGTH == 2000
VALID_MESSAGE_STATUSES == {"pending", "read", "replied"}

\* a str offered as an email address; email: EMAIL_PATTERN matches it
Email(s, n, b, ok) == [s |-> s, len |-> n, blank |-> b, email |-> ok]

\* ContactMessage.__post_init__: the validations in the order they run
ContactMessage_post_init(e) ==
    FirstError(<<validate_required(e.name, MAX_MESSAGE_NAME_LENGTH,
                     "InvalidNameError", "InvalidLengthError:name"),
                 IF Blank(e.email) THEN "EmptyFieldError:email"
                 ELSE IF ~e.email.email THEN "InvalidEmailError" ELSE "ok",
                 IF Blank(e.message) THEN "EmptyFieldError:message"
                 ELSE IF e.message.len < MIN_MESSAGE_LENGTH
                      THEN "InvalidLengthError:message:min"
                 ELSE IF e.message.len > MAX_MESSAGE_LENGTH
                      THEN "InvalidLengthError:message:max"
                 ELSE "ok",
                 IF e.status \notin VALID_MESSAGE_STATUSES
                 THEN "DomainError:status" ELSE "ok">>)

\* ContactMessageMapper.to_domain
ContactMessage_to_domain(d) ==
    LET e == [kind |-> "ContactMessage", id |-> Str(d["_id"]),
              name |-> d.name, email |-> d.email, message |-> d.message,
              created_at |-> d.created_at,
              status |-> Get(d, "status", "pending"),
              read_at |-> Get(d, "read_at", None),
              replied_at |-> Get(d, "replied_at", None)]
    IN Loaded(e, ContactMessage_post_init(e), e)

\* ContactMessageMapper.to_persistence
ContactMessage_to_persistence(e) ==
    [_id |-> e.id, name |-> e.name, email |-> e.email,
     message |-> e.message, created_at |-> e.created_at,
     status |-> e.status]
      @@ Put("read_at", e.read_at) @@ Put("replied_at", e.replied_at)

\* the mapper of each collection
to_domain(mapper, d) ==
    CASE mapper = "ProjectMapper" -> Project_to_domain(d)
      [] mapper = "EducationMapper" -> Education_to_domain(d)
      [] mapper = "ContactMessageMapper" -> ContactMessage_to_domain(d)

to_persistence(mapper, e) ==
    CASE mapper = "ProjectMapper" -> Project_to_persistence(e)
      [] mapper = "EducationMapper" -> Education_to_persistence(e)
      [] mapper = "ContactMessageMapper" -> ContactMessage_to_persistence(e)

\* D, and each document of D with key k set to a value of V
WithKey(D, k, V) == D \cup { d @@ (k :> v) : d \in D, v \in V }

\* the documents stored for a mapper: the required keys, each optional key
\* left out or set
Documents(mapper) ==
    LET base == { [_id |-> Id("a1"), profile_id |-> "p1", title |-> t,
                   description |-> Txt("d*100", 100, FALSE),
                   start_date |-> At(1), order_index |-> 0,
                   created_at |-> At(1), updated_at |-> At(1)]
                  : t \in {Txt("api", 3, FALSE), Txt("", 0, TRUE)} }
        d1 == WithKey(base, "end_date", {None, At(2)})
        d2 == WithKey(d1, "live_url",
                      {Url(" ", 1, TRUE, FALSE),
                       Url("https://a.io", 12, FALSE, TRUE)})
        d3 == WithKey(d2, "repo_url",
                      {Url("https://git.io/r", 16, FALSE, TRUE)})
        projectDocs == WithKey(d3, "technologies", {<<>>, <<Txt("go", 2, FALSE)>>})
        eb == { [_id |-> Id("b1"), profile_id |-> "p1",
                   institution |-> Txt("MIT", 3, FALSE),
                   degree |-> Txt("BSc", 3, FALSE),
                   field |-> Txt("CS", 2, FALSE),
                   start_date |-> At(1), order_index |-> i,
                   created_at |-> At(1), updated_at |-> At(2)]
                  : i \in OrderInputs }
        e1 == WithKey(eb, "description",
                      {None, Txt(" ", 1, TRUE), Txt("thesis", 6, FALSE)})
        educationDocs == WithKey(e1, "end_date", {None, At(1), At(2)})
        mb == { [_id |-> Id("c1"), name |-> Txt("Ann", 3, FALSE),
                   email |-> e, message |-> Txt("m*20", 20, FALSE),
                   created_at |-> At(1)]
                  : e \in {Email("a@b.io", 6, FALSE, TRUE),
                           Email("a.b", 3, FALSE, FALSE)} }
        m1 == WithKey(mb, "status", {"pending", "read", "replied"})
        m2 == WithKey(m1, "read_at", {None, At(2)})
        messageDocs == WithKey(m2, "replied_at", {None, At(2)})
    IN CASE mapper = "ProjectMapper" -> projectDocs
         [] mapper = "EducationMapper" -> educationDocs
         [] mapper = "ContactMessageMapper" -> messageDocs

\* doc = await collection.find_one(...): a stored document reaches a mapper
FindOne(mapper, d) ==
    /\ persisted = None
    /\ last = NoExecution
    /\ persisted' = [mapper |-> mapper, doc |-> d]
    /\ UNCHANGED <<collection, issued, last, entity, edit, workerVars, useCaseVars,
                   messageVars>>

\* entity = mapper.to_domain(doc)
ToDomain ==
    /\ persisted # None
    /\ last = NoExecution
    /\ entity' = to_domain(persisted.mapper, persisted.doc).entity
    /\ last' = Execution("to_domain", persisted.mapper,
                         to_domain(persisted.mapper, persisted.doc).status)
    /\ UNCHANGED <<collection, issued, persisted, edit, workerVars, useCaseVars,
                   messageVars>>

\* mapper.to_persistence(entity): last.status holds the document it returns
ToPersistence ==
    /\ persisted # None
    /\ entity # None
    /\ last.op = "to_domain"
    /\ last' = Execution("to_persistence", persisted.mapper,
                         to_persistence(persisted.mapper, entity))
    /\ UNCHANGED <<collection, issued, persisted, entity, edit, workerVars,
                   useCaseVars, messageVars>>

\* ------------------------------------------------------------ EditSkill
\* the execution of EditSkillUseCase.execute(request): where it stands and,
\* once it is over, what it answered
Editing(pc_, request, status) ==
    [pc |-> pc_, request |-> request, status |-> status]

NoEdit == Editing("idle", None, "none")

EditSkillRequests ==
    [skill_id : Ids,
     name : {None, Txt("", 0, TRUE), Txt("go", 2, FALSE), NameOf(1),
             Txt("x*51", 51, FALSE)}]

\* skill = await self.skill_repo.get_by_id(request.skill_id), and
\* "if not skill: raise NotFoundException"
EditSkillGet(r) ==
    /\ edit.pc = "idle"
    /\ IF r.skill_id \notin DOMAIN collection
       THEN /\ edit' = Editing("done", r, "NotFoundException")
            /\ UNCHANGED entity
       ELSE IF ~ToDomainOk(collection[r.skill_id])
       THEN /\ edit' = Editing("done", r, "DomainError")
            /\ UNCHANGED entity
       ELSE /\ edit' = Editing("check", r, "none")
            /\ entity' = [id |-> r.skill_id] @@ collection[r.skill_id]
    /\ UNCHANGED <<collection, issued, last, persisted, workerVars,
                   useCaseVars, messageVars>>

\* Skill.update_info(name=...): the name is assigned, then validated
Skill_update_info(e, name) ==
    IF name = None THEN Outcome(e, "ok")
    ELSE Outcome([e EXCEPT !.name = name],
                 IF RequiredTextOk(name, MAX_NAME_LENGTH) THEN "ok"
                 ELSE "DomainError")

\* the name check (exists_by_name, only when the name changes) and
\* skill.update_info(...)
EditSkillCheck ==
    /\ edit.pc = "check"
    /\ LET name == edit.request.name
           changing == name # None /\ name.len > 0 /\ name # entity.name
           o == Skill_update_info(entity, name)
       IN IF changing /\ ExistsByName(collection, entity.profile_id, name)
          THEN /\ edit' = Editing("done", edit.request, "DuplicateException")
               /\ UNCHANGED entity
          ELSE /\ entity' = o.entity
               /\ edit' = IF o.status = "ok"
                          THEN Editing("update", edit.request, "none")
                          ELSE Editing("done", edit.request, o.status)
    /\ UNCHANGED <<collection, issued, last, persisted, workerVars,
                   useCaseVars, messageVars>>

\* replace_one({"_id": entity.id}, doc): no upsert, so a filter that matches
\* nothing writes nothing
ReplaceOne(c, id, d) == IF id \in DOMAIN c THEN [c EXCEPT ![id] = d] ELSE c

\* updated_skill = await self.skill_repo.update(skill): SkillRepository.update
\* returns the entity it was given, and the use case answers with it
EditSkillUpdate ==
    /\ edit.pc = "update"
    /\ collection' = ReplaceOne(collection, entity.id,
                                Document(entity.profile_id, entity.name,
                                         entity.order_index))
    /\ edit' = Editing("done", edit.request, "ok")
    /\ UNCHANGED <<issued, last, entity, persisted, workerVars, useCaseVars,
                   messageVars>>

\* ------------------------------------------------------- initial states
\* Collections left by SkillRepository.add of entities made by create (and by
\* an earlier reorder). Ids are opaque (uuid4), so up to renaming them:
\* ids 1..k, p1's documents first, and within a profile ids in
\* non-decreasing order_index.
InitCollections ==
    UNION {
      UNION {
        { [id \in 1..k |->
             Document(IF id <= j THEN "p1" ELSE "p2", NameOf(id), f[id])]
          : f \in { g \in [1..k -> StoredIndexes] :
                     \A a, b \in 1..k :
                        (a < b /\ ((a <= j) <=> (b <= j))) => g[a] <= g[b] } }
        : j \in 0..k }
      : k \in 0..MaxDocs }

InitWorkers ==
    /\ pc = [w \in AllWorkers |-> "idle"]
    /\ call = [w \in AllWorkers |-> NoCall]
    /\ old_index = [w \in AllWorkers |-> 0]
    /\ pre = [w \in AllWorkers |-> <<>>]
    /\ writes = [w \in AllWorkers |-> 0]
    /\ late = [w \in AllWorkers |-> FALSE]

\* nothing stored by the use cases
InitUseCases ==
    /\ last = NoExecution
    /\ educations = <<>>
    /\ experiences = <<>>
    /\ profiles = <<>>

\* no contact message stored
NoMessages ==
    /\ message = NewMessage
    /\ contact_messages = <<>>
    /\ now = 0
    /\ returned = NoReturn

\* no entity object in memory, no document at a mapper
NoEntity ==
    /\ entity = None
    /\ persisted = None
    /\ edit = NoEdit

\* ---------------------------------------- one reorder call, run alone
Init ==
    /\ collection \in InitCollections
    /\ issued = Cardinality(DOMAIN collection)
    /\ InitWorkers
    /\ InitUseCases
    /\ NoMessages
    /\ NoEntity

Next ==
    \/ \E p \in Profiles, e \in Ids, new \in IndexInputs : ReorderRead(1, p, e, new)
    \/ ReorderShift(1)
    \/ ReorderMove(1)

Spec == Init /\ [][Next]_vars

\* ------------------------- two reorder calls on one profile, interleaved
InitConc ==
    /\ collection \in { c \in InitCollections :
                          /\ OfProfile(c, "p1") = DOMAIN c
                          /\ UniqueIndex(c, "p1")
                          /\ \A id \in DOMAIN c : ToDomainOk(c[id]) }
    /\ issued = Cardinality(DOMAIN collection)
    /\ InitWorkers
    /\ InitUseCases
    /\ NoMessages
    /\ NoEntity

NextConc ==
    \E w \in AllWorkers :
        \/ \E e \in Ids, new \in 0..MaxIndex : ReorderRead(w, "p1", e, new)
        \/ ReorderShift(w)
        \/ ReorderMove(w)

SpecConc == InitConc /\ [][NextConc]_vars

\* ------------------------------------ AddSkill executions, one at a time
InitSkill ==
    /\ collection = <<>>
    /\ issued = 0
    /\ InitWorkers
    /\ InitUseCases
    /\ NoMessages
    /\ NoEntity

NextSkill == \E r \in SkillRequests : AddSkill(r)

SpecSkill == InitSkill /\ [][NextSkill]_vars

\* ------------------ two AddSkill executions for one profile, interleaved
NextAddConc ==
    \E w \in AllWorkers :
        \/ \E r \in { x \in SkillRequests : x.profile_id = "p1" } :
              AddSkillLookup(w, r)
        \/ AddSkillInsert(w)

SpecAddConc == InitSkill /\ [][NextAddConc]_vars

\* ------------- AddEducation / AddExperience executions, one at a time
NextAdd ==
    \/ \E r \in EducationRequests : AddEducation(r)
    \/ \E r \in ExperienceRequests : AddExperience(r)

SpecAdd == InitSkill /\ [][NextAdd]_vars

\* ------------------------------- CreateProfile executions, one at a time
NextProfile == \E r \in ProfileRequests : CreateProfile(r)

SpecProfile == InitSkill /\ [][NextProfile]_vars

\* ------------------- one entity object: create, then calls of its methods
NextEntity ==
    \/ \E r \in Requests("Project.create") : Project_create(r)
    \/ \E r \in Requests("Education.create") : Education_create(r)
    \/ \E r \in Requests("WorkExperience.create") : WorkExperience_create(r)
    \/ \E r \in Requests("Certification.create") : Certification_create(r)
    \/ \E r \in Requests("AdditionalTraining.create") :
          AdditionalTraining_create(r)
    \/ \E a \in Requests("Project.update_info") : Project_update_info(a)
    \/ \E a \in Requests("Project.update_urls") : Project_update_urls(a)
    \/ \E a \in Requests("Education.update_info") : Education_update_info(a)
    \/ \E a \in Requests("WorkExperience.update_info") :
          WorkExperience_update_info(a)
    \/ \E a \in Requests("Certification.update_info") :
          Certification_update_info(a)

SpecEntity == InitSkill /\ [][NextEntity]_vars

\* -------------------------------------------- delete calls, one at a time
NextDelete == \E id \in Ids : Delete(id)

SpecDelete == Init /\ [][NextDelete]_vars

\* ------------------------------ get_all_ordered on collections of any size
MaxSmall == 3
MaxOver == 1

\* n skills added by SkillRepository.add (n small, or around the length given
\* to to_list), the first q of them to p2 and the
\* rest to p1, at indices 0, gap, 2*gap, ...
InitList ==
    /\ \E n \in 0..MaxSmall \cup (ListLimit - 1)..(ListLimit + MaxOver),
             q \in 0..2, gap \in 1..2 :
          /\ q <= n
          /\ collection =
               [id \in 1..n |->
                  Document(IF id <= q THEN "p2" ELSE "p1", NameOf(id),
                           gap * (id - 1))]
    /\ issued = Cardinality(DOMAIN collection)
    /\ InitWorkers
    /\ InitUseCases
    /\ NoMessages
    /\ NoEntity

NextList ==
    \E p \in Profiles, ascending \in BOOLEAN : CallGetAllOrdered(p, ascending)

SpecList == InitList /\ [][NextList]_vars

\* ---------------------- a stored document through a mapper and back
NextMapper ==
    \/ \E mapper \in {"ProjectMapper", "EducationMapper",
                      "ContactMessageMapper"} :
          \E d \in Documents(mapper) : FindOne(mapper, d)
    \/ ToDomain
    \/ ToPersistence

SpecMapper == InitSkill /\ [][NextMapper]_vars

\* ---- one EditSkill execution on the skills of one profile, interleaved
\* with a reorder call of that profile and the deletion of the edited skill
NextEdit ==
    \/ \E r \in EditSkillRequests : EditSkillGet(r)
    \/ EditSkillCheck
    \/ EditSkillUpdate
    \/ \E e \in Ids, new \in 0..MaxIndex : ReorderRead(2, "p1", e, new)
    \/ ReorderShift(2)
    \/ ReorderMove(2)
    \/ edit.pc \in {"check", "update"} /\ Delete(edit.request.skill_id)

SpecEdit == InitConc /\ [][NextEdit]_vars

\* ------------------------------------------ contact message transitions
InitMessages ==
    /\ collection = <<>>
    /\ issued = 0
    /\ InitWorkers
    /\ InitUseCases
    /\ message = NewMessage
    /\ contact_messages = [id \in MessageIds |-> NewMessage]
    /\ now = 0
    /\ returned = NoReturn
    /\ NoEntity

NextMessages ==
    \/ EntityMarkAsRead
    \/ EntityMarkAsReplied
    \/ \E id \in MessageIdInputs : RepoMarkAsRead(id)
    \/ \E id \in MessageIdInputs : RepoMarkAsReplied(id)
    \/ Tick

SpecMessages == InitMessages /\ [][NextMessages]_vars

\* ------------------------------------------------------------ properties
RemoveId(s, e) == SelectSeq(s, LAMBDA x : x # e)

InsertAt(s, k, e) == SubSeq(s, 1, k - 1) \o <<e>> \o SubSeq(s, k, Len(s))

\* the profile's documents hold exactly the indices 0..n-1, once each
Dense(c, p) ==
    /\ UniqueIndex(c, p)
    /\ IndexSet(c, p) = 0..(Cardinality(OfProfile(c, p)) - 1)

\* the call of w addresses a stored entity of the profile it names
OwnCall(w) ==
    /\ call[w].entity_id \in DOMAIN pre[w]
    /\ pre[w][call[w].entity_id].profile_id = call[w].profile_id

ABCD == [id \in 1..4 |-> Document("p1", NameOf(id), id - 1)]

\* C1: a completed reorder of an entity of a profile whose n documents hold
\* exactly 0..n-1, to an index within 0..n-1, yields the sorted read obtained
\* by removing the entity and reinserting it at the new position; the indices
\* are again exactly 0..n-1 and the entity sits at the new index. With
\* A,B,C,D at 0,1,2,3: D to 1 reads A,D,B,C and A to 2 reads B,C,A,D.
C1_ReorderDense ==
    LET p == call[1].profile_id
        e == call[1].entity_id
        new == call[1].new_order_index
        n == Cardinality(OfProfile(pre[1], p))
    IN  (pc[1] = "done" /\ OwnCall(1) /\ Dense(pre[1], p) /\ new \in 0..(n - 1))
        => /\ Dense(collection, p)
           /\ collection[e].order_index = new
           /\ GetAllOrdered(collection, p, TRUE) =
                { InsertAt(RemoveId(s, e), new + 1, e) :
                    s \in GetAllOrdered(pre[1], p, TRUE) }
           /\ (pre[1] = ABCD /\ e = 4 /\ new = 1)
                => GetAllOrdered(collection, p, TRUE) = {<<1, 4, 2, 3>>}
           /\ (pre[1] = ABCD /\ e = 1 /\ new = 2)
                => GetAllOrdered(collection, p, TRUE) = {<<2, 3, 1, 4>>}

C1_Witness ==
    /\ pc[1] = "done"
    /\ writes[1] = 2
    /\ pre[1] = ABCD
    /\ call[1] = [profile_id |-> "p1", entity_id |-> 4, new_order_index |-> 1]
    /\ GetAllOrdered(collection, "p1", TRUE) = {<<1, 4, 2, 3>>}

\* C2: if the indices of a profile are pairwise distinct (gaps allowed) and
\* the moved entity belongs to that profile, then after the completed reorder
\* exactly one document of the profile, the moved one, holds the new index and
\* the indices of the profile are still pairwise distinct.
C2_ReorderKeepsUnique ==
    LET p == call[1].profile_id
        e == call[1].entity_id
        new == call[1].new_order_index
    IN  (pc[1] = "done" /\ OwnCall(1) /\ UniqueIndex(pre[1], p))
        => /\ UniqueIndex(collection, p)
           /\ { id \in OfProfile(collection, p) :
                  collection[id].order_index = new } = {e}

C2_Witness ==
    LET p == call[1].profile_id
    IN  /\ pc[1] = "done"
        /\ writes[1] = 2
        /\ OwnCall(1)
        /\ UniqueIndex(pre[1], p)
        /\ ~Dense(pre[1], p)
        /\ \E id \in OfProfile(pre[1], p) :
              /\ id # call[1].entity_id
              /\ collection[id].order_index # pre[1][id].order_index

\* C3: between the bulk shift and the write of the mover's index, no two
\* documents of the profile share an order_index (for a reorder of an entity
\* of a profile whose indices were pairwise distinct).
C3_NoTransientDuplicate ==
    (pc[1] = "move" /\ OwnCall(1) /\ UniqueIndex(pre[1], call[1].profile_id))
    => UniqueIndex(collection, call[1].profile_id)

\* C5: a reorder to the index the entity already holds leaves every document
\* unchanged and issues no write.
C5_ReorderNoOp ==
    (/\ pc[1] \in {"done", "raised"}
     /\ call[1].entity_id \in DOMAIN pre[1]
     /\ pre[1][call[1].entity_id].order_index = call[1].new_order_index)
    => (collection = pre[1] /\ writes[1] = 0)

C5_Witness ==
    /\ pc[1] = "done"
    /\ OwnCall(1)
    /\ Cardinality(OfProfile(pre[1], call[1].profile_id)) >= 2
    /\ pre[1][call[1].entity_id].order_index = call[1].new_order_index
    /\ collection = pre[1]

\* C4: two interleaved reorder calls on one profile can end with a duplicate
\* or a skipped index. Whenever two calls that move different entities of the
\* profile to the same index have both shifted before either writes its mover,
\* both movers end at that index, so the final indices are not distinct.
C4_InterleavedReorders ==
    LET e1 == call[1].entity_id
        e2 == call[2].entity_id
    IN  (/\ pc[1] = "done" /\ pc[2] = "done"
         /\ late[1] /\ late[2]
         /\ e1 # e2
         /\ call[1].new_order_index = call[2].new_order_index)
        => /\ collection[e1].order_index = call[1].new_order_index
           /\ collection[e2].order_index = call[2].new_order_index
           /\ ~UniqueIndex(collection, "p1")

\* both calls done from a dense collection, ending with a duplicate index and
\* a skipped one
C4_Witness ==
    /\ pc[1] = "done" /\ pc[2] = "done"
    /\ writes[1] = 2 /\ writes[2] = 2
    /\ Dense(pre[1], "p1") /\ Dense(pre[2], "p1")
    /\ ~UniqueIndex(collection, "p1")
    /\ \E i \in 0..(Cardinality(DOMAIN collection) - 1) :
          i \notin IndexSet(collection, "p1")

\* some stored document of profile p carries the name n
NameStored(c, p, n) ==
    \E id \in DOMAIN c : c[id].profile_id = p /\ c[id].name = n

\* some stored document of profile p holds the index i
IndexHeld(c, p, i) ==
    \E id \in DOMAIN c : c[id].profile_id = p /\ c[id].order_index = i

\* c2 is c with exactly one new document, doc
OneMore(c, c2, doc) ==
    \E id \in (DOMAIN c2) \ (DOMAIN c) : c2 = InsertOne(c, id, doc)

UniqueNames(c) ==
    \A a, b \in DOMAIN c :
        (a # b /\ c[a].profile_id = c[b].profile_id) => c[a].name # c[b].name

\* what one AddSkill execution does, given the collection it started from
C6_Step ==
    LET r == last'.request
    IN  last'.op = "AddSkill" =>
          /\ NameStored(collection, r.profile_id, r.name)
               => /\ last'.status = "DuplicateException"
                  /\ collection' = collection
          /\ (~NameStored(collection, r.profile_id, r.name) /\ SkillCreateOk(r))
               => /\ last'.status = "ok"
                  /\ OneMore(collection, collection',
                             Document(r.profile_id, r.name, r.order_index))

\* C6: with AddSkill executions run one at a time, an execution whose name is
\* already stored for the same profile fails with DuplicateException and
\* stores nothing, while a request (with fields Skill.create accepts) whose
\* name is stored only under another profile is stored; so no two stored
\* skills of one profile ever share a name.
C6_AddSkillUniqueName == [] UniqueNames(collection) /\ [][C6_Step]_vars

C6_Witness ==
    /\ last.op = "AddSkill"
    /\ last.status = "DuplicateException"
    /\ SkillCreateOk(last.request)
    /\ \E a, b \in DOMAIN collection :
          /\ collection[a].name = collection[b].name
          /\ collection[a].profile_id # collection[b].profile_id

\* C7: after any sequence of AddSkill executions no two stored skills of the
\* same profile share an order_index.
C7_AddSkillUniqueOrderIndex == \A p \in Profiles : UniqueIndex(collection, p)

\* what one AddEducation / AddExperience execution does
C8_Step ==
    LET r == last'.request
    IN  /\ last'.op = "AddEducation" =>
              /\ IndexHeld(educations, r.profile_id, r.order_index)
                   => /\ last'.status = "BusinessRuleViolationException"
                      /\ UNCHANGED <<educations, experiences>>
              /\ (~IndexHeld(educations, r.profile_id, r.order_index)
                   /\ EducationCreateOk(r))
                   => /\ last'.status = "ok"
                      /\ OneMore(educations, educations', EducationDocument(r))
                      /\ UNCHANGED experiences
        /\ last'.op = "AddExperience" =>
              /\ IndexHeld(experiences, r.profile_id, r.order_index)
                   => /\ last'.status = "BusinessRuleViolationException"
                      /\ UNCHANGED <<educations, experiences>>
              /\ (~IndexHeld(experiences, r.profile_id, r.order_index)
                   /\ ExperienceCreateOk(r))
                   => /\ last'.status = "ok"
                      /\ OneMore(experiences, experiences', ExperienceDocument(r))
                      /\ UNCHANGED educations

\* C8: run one at a time, AddEducation and AddExperience with an order_index
\* held by a stored entry of the same profile fail with
\* BusinessRuleViolationException and store nothing; with a free index (and
\* fields the entity's create accepts) they store exactly one new entry; so
\* order_index stays unique per profile in both collections.
C8_AddKeepsOrderIndexUnique ==
    /\ [] (\A p \in ProfileIdInputs :
              UniqueIndex(educations, p) /\ UniqueIndex(experiences, p))
    /\ [][C8_Step]_vars

C8_Witness ==
    /\ last.op = "AddExperience"
    /\ last.status = "BusinessRuleViolationException"
    /\ ExperienceCreateOk(last.request)
    /\ DOMAIN educations # {}
    /\ DOMAIN experiences # {}

\* C9: with CreateProfile executions run one at a time, at most one profile
\* is ever stored, and every execution that starts while a profile exists
\* fails with DuplicateException and stores nothing.
C9_SingleProfile ==
    /\ [] (Cardinality(DOMAIN profiles) <= 1)
    /\ [][(last'.op = "CreateProfile" /\ DOMAIN profiles # {})
            => (last'.status = "DuplicateException" /\ profiles' = profiles)]_vars

C9_Witness ==
    /\ last.op = "CreateProfile"
    /\ last.status = "DuplicateException"
    /\ ProfileCreateOk(last.request)
    /\ Cardinality(DOMAIN profiles) = 1

Rank(status) ==
    CASE status = "pending" -> 0
      [] status = "read" -> 1
      [] status = "replied" -> 2

\* C10: no mark_as_read / mark_as_replied, on the entity or through the
\* repository in any interleaving, moves a status backward in
\* pending < read < replied.
C10_StatusNeverBackward ==
    [][ /\ Rank(message'.status) >= Rank(message.status)
        /\ \A id \in DOMAIN contact_messages :
              /\ id \in DOMAIN contact_messages'
              /\ Rank(contact_messages'[id].status)
                   >= Rank(contact_messages[id].status) ]_vars

C10_Witness ==
    /\ message.status = "replied"
    /\ message.read_at # message.replied_at
    /\ returned = Returned("mark_as_read", 1, FALSE)
    /\ contact_messages[1].status = "replied"

Clock == 0..MaxClock

\* C11: a transition requested on a message already at or past its target
\* changes nothing: mark_as_read on a read or replied message and
\* mark_as_replied on a replied message leave status, read_at and replied_at
\* as they were, whatever the clock shows, so a transition applied twice
\* equals the transition applied once; the same holds for a stored message
\* that is replied, which no repository call touches again.
C11_TransitionIdempotent ==
    /\ [](\A t \in Clock :
            /\ message.status \in {"read", "replied"}
                  => mark_as_read(message, t) = message
            /\ message.status = "replied"
                  => mark_as_replied(message, t) = message
            /\ \A t2 \in Clock :
                  /\ mark_as_read(mark_as_read(message, t), t2)
                        = mark_as_read(message, t)
                  /\ mark_as_replied(mark_as_replied(message, t), t2)
                        = mark_as_replied(message, t))
    /\ [][ /\ message.status = "replied" => message' = message
           /\ \A id \in DOMAIN contact_messages :
                 contact_messages[id].status = "replied"
                    => contact_messages'[id] = contact_messages[id] ]_vars

C11_Witness ==
    /\ message.status = "read"
    /\ message.read_at.t < now
    /\ contact_messages[1].status = "replied"
    /\ contact_messages[1].replied_at.t < now
    /\ returned = Returned("mark_as_replied", 1, FALSE)

\* C12: mark_as_replied on a pending message sets status replied and puts
\* the one timestamp it reads into both read_at and replied_at; on a read
\* message it sets replied_at and leaves read_at at the value mark_as_read
\* wrote.
C12_MarkAsReplied ==
    /\ [](/\ message.status = "pending"
              => mark_as_replied(message, now) =
                    [status |-> "replied", read_at |-> At(now),
                     replied_at |-> At(now)]
          /\ message.status = "read"
              => mark_as_replied(message, now) =
                    [status |-> "replied", read_at |-> message.read_at,
                     replied_at |-> At(now)])
    /\ [][ message'.status = "replied" /\ message.status # "replied"
             => /\ message'.replied_at = At(now)
                /\ message.status = "pending" => message'.read_at = At(now)
                /\ message.status = "read"
                     => message'.read_at = message.read_at ]_vars

C12_Witness ==
    /\ message.status = "replied"
    /\ message.read_at # None
    /\ message.replied_at # None
    /\ message.read_at.t < message.replied_at.t

\* C13: every change the repository makes to a stored message is the change
\* the entity method makes to it at the same clock reading; in particular
\* mark_as_replied on a stored read message keeps the stored read_at.
C13_RepositoryMatchesEntity ==
    [][ \A id \in DOMAIN contact_messages :
           \/ contact_messages'[id] = contact_messages[id]
           \/ contact_messages'[id] = mark_as_read(contact_messages[id], now)
           \/ contact_messages'[id] = mark_as_replied(contact_messages[id], now)
      ]_vars

\* the start and the end of the date range of an entity object
RangeStart(e) == IF e.kind = "Certification" THEN e.issue_date ELSE e.start_date

RangeEnd(e) == IF e.kind = "Certification" THEN e.expiry_date ELSE e.end_date

Supplied(given, current) == IF given # None THEN given ELSE current

TypeOf(op) ==
    CASE op \in {"Project.create", "Project.update_info", "Project.update_urls"}
            -> "Project"
      [] op \in {"Education.create", "Education.update_info"} -> "Education"
      [] op \in {"WorkExperience.create", "WorkExperience.update_info"}
            -> "WorkExperience"
      [] op \in {"Certification.create", "Certification.update_info"}
            -> "Certification"
      [] OTHER -> "none"

IsCreate(op) ==
    op \in {"Project.create", "Education.create", "WorkExperience.create",
            "Certification.create"}

IsUpdateInfo(op) ==
    op \in {"Project.update_info", "Education.update_info",
            "WorkExperience.update_info", "Certification.update_info"}

\* the start / end a create or update_info request supplies
GivenStart(x) ==
    IF TypeOf(x.op) = "Certification" THEN x.request.issue_date
    ELSE x.request.start_date

GivenEnd(x) ==
    IF TypeOf(x.op) = "Certification" THEN x.request.expiry_date
    ELSE x.request.end_date

\* C14: for WorkExperience, Education, Project and Certification, create and
\* update_info succeed only if, once the supplied dates are applied, the
\* end is absent or strictly later than the start (equal dates fail, a
\* create without end is never refused for its dates), and every object
\* returned by create or left by a successful update_info has end absent
\* or end > start.
C14_DateRangeStrict ==
    /\ []((IsCreate(last.op) \/ IsUpdateInfo(last.op)) /\ last.status = "ok"
            => \/ RangeEnd(entity) = None
               \/ RangeEnd(entity).t > RangeStart(entity).t)
    /\ [](IsCreate(last.op)
            => /\ last.status = "ok"
                  => \/ GivenEnd(last) = None
                     \/ GivenEnd(last).t > GivenStart(last).t
               /\ GivenEnd(last) = None
                  => last.status # "InvalidDateRangeError")
    /\ [][IsUpdateInfo(last'.op) /\ last'.status = "ok" /\ entity # None
            => LET start == Supplied(GivenStart(last'), RangeStart(entity))
                   end == Supplied(GivenEnd(last'), RangeEnd(entity))
               IN /\ end = None \/ end.t > start.t
                  /\ RangeStart(entity') = start
                  /\ RangeEnd(entity') = end]_vars

C14_Witness ==
    /\ last.op = "Certification.update_info"
    /\ last.status = "ok"
    /\ last.request.issue_date # None
    /\ last.request.expiry_date = None
    /\ entity.expiry_date # None
    /\ entity.expiry_date.t > entity.issue_date.t

ProjectCalls == {"Project.create", "Project.update_info", "Project.update_urls"}

\* a live or repository URL is present
UrlPresent(e) ==
    \/ e.live_url # None /\ ~e.live_url.blank
    \/ e.repo_url # None /\ ~e.repo_url.blank

\* C15: after every successful Project.create, update_info and update_urls
\* the project has a live or repository URL or a description of at least
\* 100 characters, and its description has at least 10 characters.
C15_ProjectSufficient ==
    last.op \in ProjectCalls /\ last.status = "ok"
       => /\ UrlPresent(entity) \/ entity.description.len >= 100
          /\ entity.description.len >= 10

\* C16: delete(id) of an id that is not stored returns False and leaves the
\* collection as it was; a second delete(id) after one that returned True
\* returns False and leaves the collection of the first.
C16_DeleteAbsent ==
    /\ [](last.op = "delete" /\ last.request \notin DOMAIN pre[1]
            => last.status = "False" /\ collection = pre[1])
    /\ [](last.op = "delete" /\ last.request \in DOMAIN pre[1]
            => last.status = "True" /\ last.request \notin DOMAIN collection)
    /\ [][ /\ last.op = "delete" /\ last.status = "True"
           /\ last'.op = "delete" /\ last'.request = last.request
           => last'.status = "False" /\ collection' = collection ]_vars

C16_Witness ==
    /\ last = Execution("delete", 2, "False")
    /\ pre[1] = collection
    /\ DOMAIN collection = {1, 3}

\* C17: delete(id) removes the document with that id and nothing else:
\* every other document stays, with its order_index, so deleting the
\* entity at index k of a dense sequence, k not the last, leaves a gap at
\* k.
C17_DeleteNoCompaction ==
    last.op = "delete"
       => /\ DOMAIN collection = DOMAIN pre[1] \ {last.request}
          /\ \A x \in DOMAIN collection : collection[x] = pre[1][x]
          /\ \A p \in Profiles :
                (/\ last.request \in OfProfile(pre[1], p)
                 /\ Dense(pre[1], p)
                 /\ pre[1][last.request].order_index
                       < Cardinality(OfProfile(pre[1], p)) - 1)
                => /\ ~Dense(collection, p)
                   /\ pre[1][last.request].order_index
                         \notin IndexSet(collection, p)
                   /\ pre[1][last.request].order_index + 1
                         \in IndexSet(collection, p)

C17_Witness ==
    /\ last = Execution("delete", 2, "True")
    /\ Dense(pre[1], "p1")
    /\ Cardinality(OfProfile(pre[1], "p1")) = 3
    /\ IndexSet(collection, "p1") = {0, 2}

\* C18: get_all_ordered(profile_id, ascending) returns every stored entity
\* of the profile exactly once and none of another profile, in
\* non-decreasing order_index when ascending and non-increasing when not,
\* whatever the gaps and however many entities the profile has.
C18_GetAllOrderedComplete ==
    last.op = "get_all_ordered"
       => LET r == last.status
              own == OfProfile(collection, last.request.profile_id)
          IN /\ { r[i] : i \in 1..Len(r) } = own
             /\ Len(r) = Cardinality(own)
             /\ \A i \in 1..(Len(r) - 1) :
                   IF last.request.ascending
                   THEN collection[r[i]].order_index
                           <= collection[r[i + 1]].order_index
                   ELSE collection[r[i]].order_index
                           >= collection[r[i + 1]].order_index

\* the keys to_domain reads with a default other than None
Defaulted(mapper) ==
    CASE mapper = "ProjectMapper" -> {"technologies"}
      [] mapper = "ContactMessageMapper" -> {"status"}
      [] OTHER -> {}

\* an optional key holds None or a blank text
Hollow(d, k) ==
    /\ k \in DOMAIN d
    /\ \/ d[k] = None
       \/ k \in {"description", "live_url", "repo_url"} /\ d[k].blank

OptionalKeys ==
    {"end_date", "live_url", "repo_url", "description", "read_at",
     "replied_at"}

Kinds == <<"owner", "required", "length", "cross-field", "numeric">>

KindRank(k) == CHOOSE i \in 1..Len(Kinds) : Kinds[i] = k

Rule(name, kind, broken) ==
    [rule |-> name, kind |-> KindRank(kind), broken |-> broken]

TextRules(t, max, emptyError, lengthError) ==
    <<Rule(emptyError, "required", t.blank),
      Rule(lengthError, "length", t.len > max)>>

OptionalRule(t, max, lengthError) ==
    <<Rule(lengthError, "length", t # None /\ ~t.blank /\ t.len > max)>>

UrlRule(u, urlError) ==
    <<Rule(urlError, "cross-field", u # None /\ ~u.blank /\ ~u.url)>>

OwnerRule(r) == <<Rule("EmptyFieldError:profile_id", "owner", r.profile_id = "")>>

DateRule(start, end) ==
    <<Rule("InvalidDateRangeError", "cross-field",
           end # None /\ end.t <= start.t)>>

OrderRule(r) == <<Rule("InvalidOrderIndexError", "numeric", r.order_index < 0)>>

\* the rules of each entity, in the order its fields are checked
ProjectRules(r) ==
    OwnerRule(r)
    \o TextRules(r.title, 100, "InvalidTitleError", "InvalidLengthError:title")
    \o <<Rule("InvalidDescriptionError:empty", "required", r.description.blank),
         Rule("InvalidLengthError:description:min", "length",
              r.description.len < 10),
         Rule("InvalidLengthError:description:max", "length",
              r.description.len > 2000)>>
    \o DateRule(r.start_date, r.end_date)
    \o UrlRule(r.live_url, "InvalidURLError:live_url")
    \o UrlRule(r.repo_url, "InvalidURLError:repo_url")
    \o <<Rule("InvalidLengthError:technologies", "length",
              Len(r.technologies) > 20)>>
    \o OrderRule(r)
    \o <<Rule("InvalidDescriptionError:sufficiency", "cross-field",
              ~UrlPresent(r) /\ r.description.len < 100)>>

EducationRules(r) ==
    OwnerRule(r)
    \o TextRules(r.institution, 100, "InvalidInstitutionError",
                 "InvalidLengthError:institution")
    \o TextRules(r.degree, 100, "EmptyFieldError:degree",
                 "InvalidLengthError:degree")
    \o TextRules(r.field, 100, "EmptyFieldError:field",
                 "InvalidLengthError:field")
    \o OptionalRule(r.description, 1000, "InvalidLengthError:description")
    \o DateRule(r.start_date, r.end_date)
    \o OrderRule(r)

WorkExperienceRules(r) ==
    OwnerRule(r)
    \o TextRules(r.role, 100, "InvalidRoleError", "InvalidLengthError:role")
    \o TextRules(r.company, 100, "InvalidCompanyError",
                 "InvalidLengthError:company")
    \o OptionalRule(r.description, 2000, "InvalidLengthError:description")
    \o DateRule(r.start_date, r.end_date)
    \o <<Rule("InvalidLengthError:responsibilities", "length",
              Len(r.responsibilities) > 20),
         Rule("EmptyFieldError:responsibility item", "required",
              \E k \in 1..Len(r.responsibilities) :
                 r.responsibilities[k].blank)>>
    \o OrderRule(r)

CertificationRules(r) ==
    OwnerRule(r)
    \o TextRules(r.title, 100, "InvalidTitleError", "InvalidLengthError:title")
    \o TextRules(r.issuer, 100, "InvalidIssuerError",
                 "InvalidLengthError:issuer")
    \o DateRule(r.issue_date, r.expiry_date)
    \o OptionalRule(r.credential_id, 100, "InvalidLengthError:credential_id")
    \o UrlRule(r.credential_url, "InvalidURLError:credential_url")
    \o OrderRule(r)

AdditionalTrainingRules(r) ==
    OwnerRule(r)
    \o TextRules(r.title, 100, "InvalidTitleError", "InvalidLengthError:title")
    \o TextRules(r.provider, 100, "InvalidProviderError",
                 "InvalidLengthError:provider")
    \o OptionalRule(r.duration, 50, "InvalidLengthError:duration")
    \o UrlRule(r.certificate_url, "InvalidURLError:certificate_url")
    \o OptionalRule(r.description, 500, "InvalidLengthError:description")
    \o OrderRule(r)

CreateCalls ==
    {"Project.create", "Education.create", "WorkExperience.create",
     "Certification.create", "AdditionalTraining.create"}

\* the rules the input of the create call x violates, in field order
Broken(x) ==
    SelectSeq(CASE x.op = "Project.create" -> ProjectRules(x.request)
                [] x.op = "Education.create" -> EducationRules(x.request)
                [] x.op = "WorkExperience.create"
                      -> WorkExperienceRules(x.request)
                [] x.op = "Certification.create"
                      -> CertificationRules(x.request)
                [] x.op = "AdditionalTraining.create"
                      -> AdditionalTrainingRules(x.request),
              LAMBDA u : u.broken)

\* C20 as stated: when the input of create violates several rules, the
\* error reported is of the kind that comes first among the violated ones
\* in the order owner, required text, length bounds, cross-field date/URL
\* checks, numeric bounds.
C20_ByKindOfRule ==
    last.op \in CreateCalls /\ Broken(last) # <<>>
       => \E i \in 1..Len(Broken(last)) :
             /\ Broken(last)[i].rule = last.status
             /\ \A j \in 1..Len(Broken(last)) :
                   Broken(last)[i].kind <= Broken(last)[j].kind

\* C20 amended: the error reported is that of the first violated rule in
\* the entity's own field-by-field order: the owner, then each required
\* text field in turn (its emptiness, then its length), then the remaining
\* checks in the order __post_init__ makes them; create succeeds exactly
\* when no rule is violated.
C20_ByFieldOrder ==
    last.op \in CreateCalls
       => last.status = IF Broken(last) = <<>> THEN "ok"
                        ELSE Broken(last)[1].rule

C20_Witness ==
    /\ last.op = "Project.create"
    /\ last.request.title.len > 100
    /\ last.request.description.blank
    /\ last.request.order_index < 0
    /\ last.status = "InvalidLengthError:title"

\* the unique value of request r of use case op is held by a stored document
Taken(op, r) ==
    CASE op = "AddSkill" -> NameStored(collection, r.profile_id, r.name)
      [] op = "AddEducation" ->
           IndexHeld(educations, r.profile_id, r.order_index)
      [] op = "AddExperience" ->
           IndexHeld(experiences, r.profile_id, r.order_index)

\* the fields of request r satisfy the rules of the entity of use case op
FieldsValid(op, r) ==
    CASE op = "AddSkill" -> SkillCreateOk(r)
      [] op = "AddEducation" -> EducationCreateOk(r)
      [] op = "AddExperience" -> ExperienceCreateOk(r)

Conflict(op) ==
    IF op = "AddSkill" THEN "DuplicateException"
    ELSE "BusinessRuleViolationException"

AddCalls == {"AddSkill", "AddEducation", "AddExperience"}

MaxIndexOf(c, p) ==
    CHOOSE m \in IndexSet(c, p) : \A i \in IndexSet(c, p) : i <= m

\* C22: a completed reorder of a stored entity, called with its owner and a
\* new index that is negative or above the owner's largest order_index,
\* has either changed no order_index (rejected) or left the entity at an
\* index of the range the owner had (clamped); the entity is never stored
\* at the new index itself.
C22_ReorderOutOfRange ==
    LET e == call[1].entity_id
        new == call[1].new_order_index
        before == pre[1]
    IN (/\ pc[1] = "done"
        /\ e \in DOMAIN before
        /\ before[e].profile_id = call[1].profile_id
        /\ (new < 0 \/ new > MaxIndexOf(before, call[1].profile_id)))
       => /\ collection[e].order_index # new
          /\ \/ \A id \in DOMAIN before :
                   collection[id].order_index = before[id].order_index
             \/ /\ collection[e].order_index >= 0
                /\ collection[e].order_index
                     <= MaxIndexOf(before, call[1].profile_id)

\* C23: SkillRepository.update of an entity whose id is not stored stores no
\* document and does not report success, so an EditSkill execution whose
\* skill is deleted between its read and its write does not answer "ok".
C23_UpdateOfMissing ==
    [][ (edit.pc = "update" /\ edit'.pc = "done"
            /\ entity.id \notin DOMAIN collection)
          => /\ collection' = collection
             /\ edit'.status # "ok" ]_vars

\* the order_index of every document once reorder call k has run alone on
\* collection c
ReorderAlone(c, k) ==
    LET old == c[k.entity_id].order_index
    IN [id \in DOMAIN c |->
          IF old = k.new_order_index THEN c[id].order_index
          ELSE IF id = k.entity_id THEN k.new_order_index
          ELSE ShiftedIndex(c[id], k.profile_id, old, k.new_order_index)]

\* C25: no step of EditSkill changes the stored order_index of a skill, and
\* once an EditSkill execution and a reorder call of the same profile have
\* both completed, whatever their interleaving, every skill is at the index
\* the reorder alone would have given it and the indices are pairwise
\* distinct.
C25_EditKeepsOrder ==
    /\ [][ edit' # edit
             => \A id \in DOMAIN collection :
                   collection'[id].order_index = collection[id].order_index
         ]_vars
    /\ [] ((/\ edit.pc = "done"
            /\ pc[2] = "done"
            /\ call[2].entity_id \in DOMAIN pre[2]
            /\ DOMAIN collection = DOMAIN pre[2])
           => /\ \A id \in DOMAIN collection :
                    collection[id].order_index
                       = ReorderAlone(pre[2], call[2])[id]
              /\ UniqueIndex(collection, "p1"))

\* the invariants of the entity object e: what its __post_init__ checks
Invariants(e) ==
    CASE e.kind = "Project" -> Project_post_init(e)
      [] e.kind = "Education" -> Education_post_init(e)
      [] e.kind = "WorkExperience" -> WorkExperience_post_init(e)
      [] e.kind = "Certification" -> Certification_post_init(e)
      [] e.kind = "AdditionalTraining" -> AdditionalTraining_post_init(e)

\* C24: an update call that raises a validation error leaves every field of
\* the entity as it was before the call, so the entity object satisfies all
\* its invariants after any sequence of successful and failed update calls.
C24_FailedUpdateChangesNothing ==
    /\ [][ (entity # None /\ entity' # entity) => last'.status = "ok" ]_vars
    /\ [] (entity # None => Invariants(entity) = "ok")

\* C26: once two AddSkill executions for the same profile have both
\* completed, whatever the interleaving of their lookups and inserts, no
\* two stored skills of the profile share a name.
C26_ConcurrentAddUniqueName ==
    (\A w \in AllWorkers : pc[w] \in {"done", "raised"})
       => UniqueNames(collection)

\* C27: a completed reorder of a stored entity, whatever profile_id it was
\* called with, has changed no order_index of a document of a profile other
\* than the moved entity's own, and the pairwise distinct indices of the
\* moved entity's profile are still pairwise distinct.
C27_ReorderWithinOwner ==
    LET e == call[1].entity_id
        owner == pre[1][e].profile_id
    IN (pc[1] = "done" /\ e \in DOMAIN pre[1])
       => /\ \A id \in DOMAIN pre[1] :
                pre[1][id].profile_id # owner
                   => collection[id].order_index = pre[1][id].order_index
          /\ UniqueIndex(pre[1], owner) => UniqueIndex(collection, owner)

\* C28: a completed reorder of an entity of the profile it names neither
\* adds nor removes documents, changes the order_index of every other
\* document by at most 1, and keeps the order by order_index of every pair
\* of documents of that profile other than the moved one, gaps or not.
C28_ReorderPreservesOthers ==
    LET p == call[1].profile_id
        e == call[1].entity_id
        others == OfProfile(pre[1], p) \ {e}
    IN (pc[1] = "done" /\ OwnCall(1))
       => /\ DOMAIN collection = DOMAIN pre[1]
          /\ \A id \in DOMAIN pre[1] \ {e} :
                /\ collection[id].order_index - pre[1][id].order_index
                      \in {0 - 1, 0, 1}
                /\ collection[id].profile_id = pre[1][id].profile_id
          /\ \A a, b \in others :
                pre[1][a].order_index < pre[1][b].order_index
                   => collection[a].order_index < collection[b].order_index


\* C29: a completed reorder that started from a collection whose documents
\* all have order_index >= 0 leaves every document with order_index >= 0,
\* so every stored document still converts to an entity (to_domain re-runs
\* the validation that rejects a negative order_index).
C29_StoredIndexLoadable ==
    (/\ pc[1] = "done"
     /\ \A id \in DOMAIN pre[1] : ToDomainOk(pre[1][id]))
    => \A id \in DOMAIN collection :
          /\ collection[id].order_index >= 0
          /\ ToDomainOk(collection[id])


\* C30: for a message built by ContactMessage.create and any sequence of
\* mark_as_read / mark_as_replied calls, in every reachable state: status is
\* pending exactly when read_at and replied_at are both absent; status read
\* implies read_at set and replied_at absent; status replied implies both
\* set with read_at <= replied_at; is_read() holds exactly when read_at is
\* set.
C30_StatusAndTimestamps ==
    /\ message.status \in {"pending", "read", "replied"}
    /\ message.status = "pending"
          <=> (message.read_at = None /\ message.replied_at = None)
    /\ message.status = "read"
          => (message.read_at # None /\ message.replied_at = None)
    /\ message.status = "replied"
          => /\ message.read_at # None
             /\ message.replied_at # None
             /\ message.read_at.t <= message.replied_at.t
    /\ is_read(message) <=> message.read_at # None

C30_Witness ==
    /\ message.status = "replied"
    /\ is_read(message)
    /\ message.read_at # None
    /\ message.replied_at # None
    /\ message.read_at.t < message.replied_at.t
    /\ message.replied_at.t < now

====
